---- MODULE Spec2Model ----
(***************************************************************************)
(* Ingestion-and-scoring pipeline of the WeChat content crawler:           *)
(* SyncManager (sync_manager.py) driving the feed client, the content      *)
(* processor, the metrics fetcher and the relational store (database.py,   *)
(* models.py), together with the dashboard handlers that write the same    *)
(* rows (web_app.py).                                                      *)
(***************************************************************************)
EXTENDS Integers, Sequences, FiniteSets, TLC

\* ------------------------------------------------------------------------
\* Bounds of the model
\* ------------------------------------------------------------------------
\* number of environment events in a behaviour: top-level operations started
\* (sync_account / add_account / sync_all_accounts invocations), injected
\* faults (rejected store operations, failed fetches, raising entries,
\* metrics-provider fallbacks) and dashboard edits (summarize, delete account)
MaxEvents == 4
\* settings.max_articles_per_sync (default 100), scaled down so that the
\* incremental limit actually truncates the three-entry feed
max_articles == 2
\* rate limiters are configured with 1..MaxRate requests per minute
\* (settings.max_requests_per_minute, default 30, scaled down)
MaxRate == 2
\* number of wait_if_needed calls in a behaviour of the rate limiter
MaxReleases == 4
\* the rate limiter is observed for this many seconds
MaxLimiterTime == 125
\* number of feed client calls and cache evictions in a behaviour
MaxClientCalls == 3
\* the feed client and its cache are observed for this many seconds
MaxCacheTime == 2000
\* get_feed_entries is called with limit None or 0..MaxLimit
MaxLimit == 2

\* longest "authors" list of a feed entry
MaxAuthors == 2

Procs == {1, 2}

FeedIds == {"fA", "fB"}

\* ------------------------------------------------------------------------
\* Upstream: the aggregator's JSON feed documents (fixed upstream responses)
\* ------------------------------------------------------------------------
Entry(u, t, a, c) == [url |-> u, title |-> t, author |-> a, content |-> c]

\* feed fA carries the URL u1 twice (title drift); fB shares u2 with fA
FeedItems(f) ==
    IF f = "fA"
    THEN << Entry("u1", "t1", "", "c1"),
            Entry("u1", "t1x", "Unknown", "c1x"),
            Entry("u2", "t2", "bob", "c2") >>
    ELSE << Entry("u2", "t2y", "amy", "c2y"),
            Entry("u3", "t3", "unknown", "c3") >>

FeedTitle(f) == IF f = "fA" THEN "Alpha" ELSE "Beta"

\* ------------------------------------------------------------------------
\* Sequence helpers
\* ------------------------------------------------------------------------
\* items[:limit]
Prefix(s, n) == SubSeq(s, 1, IF n < Len(s) THEN n ELSE Len(s))

\* ------------------------------------------------------------------------
\* wewe_client.get_feed_entries: `if limit: items = items[:limit]`
\* (limit None or 0 is falsy and returns every item); 0 stands for None
\* ------------------------------------------------------------------------
\* variant: the entries are handed over newest last
LimitItems_Reversed(items, limit) ==
    LET kept == IF limit # 0 THEN Prefix(items, limit) ELSE items IN
    [i \in 1..Len(kept) |-> kept[Len(kept) + 1 - i]]

LimitItems(items, limit) == IF limit # 0 THEN Prefix(items, limit) ELSE items

\* ------------------------------------------------------------------------
\* models.Article.calculate_scores: each score is kept as the exact
\* fraction <<numerator, denominator>> of the float the code computes
\* ------------------------------------------------------------------------

\* a counter column that holds NULL (the columns are nullable; stored
\* counters are otherwise non-negative)
NullCount == -1

\* `self.read_count or 0`: NULL counts as 0
OrZero(x) == IF x = NullCount THEN 0 ELSE x

\* variant: the read count is not raised to 1
calculate_scores_NoClamp(m) ==
    LET read     == OrZero(m.read_count)
        likes    == OrZero(m.like_count)
        wow      == OrZero(m.wow_count)
        comments == OrZero(m.comment_count)
        shares   == OrZero(m.share_count)
        favorites == OrZero(m.favorite_count) IN
    [engagement_rate     |-> <<(likes + wow) * 1000, read>>,
     virality_index      |-> <<(shares * 2 + wow) * 1000, read>>,
     content_value_index |-> <<(favorites * 2 + comments) * 1000, read>>,
     heat_score          |-> <<(likes + wow * 2 + comments * 3
                                 + favorites * 4 + shares * 5) * 100, read>>]

calculate_scores(m) ==
    LET read     == IF OrZero(m.read_count) > 1 THEN OrZero(m.read_count) ELSE 1
        likes    == OrZero(m.like_count)
        wow      == OrZero(m.wow_count)
        comments == OrZero(m.comment_count)
        shares   == OrZero(m.share_count)
        favorites == OrZero(m.favorite_count) IN
    [engagement_rate     |-> <<(likes + wow) * 1000, read>>,
     virality_index      |-> <<(shares * 2 + wow) * 1000, read>>,
     content_value_index |-> <<(favorites * 2 + comments) * 1000, read>>,
     heat_score          |-> <<(likes + wow * 2 + comments * 3
                                 + favorites * 4 + shares * 5) * 100, read>>]

Counters(r, l, w, c, s, f) ==
    [read_count |-> r, like_count |-> l, wow_count |-> w,
     comment_count |-> c, share_count |-> s, favorite_count |-> f]

\* column defaults of models.Article (default=0 / default=0.0)
ZeroCounters == Counters(0, 0, 0, 0, 0, 0)
ZeroScores ==
    [engagement_rate |-> <<0, 1>>, virality_index |-> <<0, 1>>,
     content_value_index |-> <<0, 1>>, heat_score |-> <<0, 1>>]

\* metrics_fetcher._generate_simulated_metrics: a function of the URL alone
SimulatedCounters(url) ==
    IF url = "u1" THEN Counters(200, 4, 2, 1, 3, 2)
    ELSE IF url = "u2" THEN Counters(500, 20, 5, 2, 10, 4)
    ELSE Counters(100, 1, 1, 0, 1, 1)

\* a recognised provider payload
RealCounters == Counters(1000, 50, 20, 5, 15, 10)

\* metrics_fetcher.fetch_article_metrics: simulated (no key, provider error,
\* empty payload) or real; `real` is the provider's answer being usable
fetch_article_metrics(url, real) ==
    IF real
    THEN [counters |-> RealCounters, is_simulated |-> FALSE]
    ELSE [counters |-> SimulatedCounters(url), is_simulated |-> TRUE]

\* ------------------------------------------------------------------------
\* content_processor.process_article (fields the store receives).
\* settings.openai_api_key is unset (its default), so the optional AI step
\* is off and `tags` stays []; the payload still carries the "tags" key,
\* with None
\* ------------------------------------------------------------------------

Lower(s) == IF s = "Unknown" THEN "unknown" ELSE s

\* the values of the author fields of a feed entry: the key is missing, a
\* string, or an object with or without a "name"
Absent == [kind |-> "absent", s |-> ""]
Str(s) == [kind |-> "str", s |-> s]
Named(s) == [kind |-> "dict", s |-> s]
Nameless == [kind |-> "dict_noname", s |-> ""]

\* a.get("name", "Unknown") for an object, the string itself for a string
MemberName(a) == IF a.kind = "dict_noname" THEN "Unknown" ELSE a.s

\* ", ".join(author_names)
RECURSIVE Join(_)
Join(names) ==
    IF names = << >> THEN ""
    ELSE IF Len(names) = 1 THEN names[1]
    ELSE names[1] \o ", " \o Join(Tail(names))

\* process_article lines 36-58: the author of an entry from its "authors"
\* list, its "author" string or object, and its "author_name"
resolve_author(e) ==
    LET names == [i \in 1..Len(e.authors) |-> MemberName(e.authors[i])]
        a1 == IF e.authors # << >> THEN Str(Join(names))
              ELSE IF e.author.kind = "absent" THEN Str("") ELSE e.author
        a2 == MemberName(a1)
    IN  IF (a2 = "" \/ Lower(a2) = "unknown") /\ e.author_name.kind = "str"
        THEN e.author_name.s ELSE a2

process_article(entry) ==
    [title |-> entry.title,
     author |-> resolve_author([author |-> Str(entry.author),
                                authors |-> << >>, author_name |-> Absent]),
     url |-> entry.url, content |-> entry.content, tags |-> ""]

\* sync_manager.py:95-96 author fallback to the account's display name
AuthorFallback(data, account_name) ==
    IF data.author = "" \/ Lower(data.author) = "unknown"
    THEN [data EXCEPT !.author = account_name]
    ELSE data


\* ------------------------------------------------------------------------
\* State
\* ------------------------------------------------------------------------
VARIABLES
    accounts,   \* table accounts: sequence of Account rows, row i has id i
    articles,   \* table articles: sequence of Article rows, row i has id i
    syncs,      \* table sync_histories: sequence of SyncHistory rows
    clock,      \* datetime.utcnow() as seen by the operations
    calls,      \* number of top-level operations started so far
    faults,     \* number of faults injected so far
    edits,      \* number of dashboard edits so far
    run,        \* per caller: the frame of the operation it is executing
    last,       \* per feed id: summary of the last finished sync_account run
    time,       \* time.time() / datetime.utcnow() in seconds, as seen by the
                \* rate limiter and the cache
    limiter,    \* the RateLimiter of the feed client (wewe_client.py)
    cache,      \* the SimpleCache files: cache key -> entry (cache.py)
    client,     \* the upstream's responses and the history of the client calls
    metrics_fetcher,  \* the MetricsFetcher, its provider and its calls
    content_fetcher,  \* the ContentFetcher: its cursor and its calls
    probe       \* the arguments and the result of a function applied on its own

\* the fetchers and the functions that are exercised on their own
aside == <<metrics_fetcher, content_fetcher, probe>>

\* the state of the feed client's components, which the pipeline operations
\* above the client leave alone
components == <<time, limiter, cache, client, aside>>

vars == <<accounts, articles, syncs, clock, calls, faults, edits, run, last,
          components>>

ZeroStats == [fetched |-> 0, new |-> 0, updated |-> 0, failed |-> 0, skipped |-> 0]

NoResult == [success |-> FALSE, error |-> "", has_stats |-> FALSE,
             stats |-> ZeroStats, account |-> ""]

NoData == [title |-> "", author |-> "", url |-> "", content |-> "", tags |-> ""]

NoPrior == [done |-> FALSE, full_sync |-> FALSE, success |-> FALSE,
            entries |-> << >>, failed |-> 0]

\* the frame of a caller that is executing nothing
IdleRun ==
    [op |-> "idle", pc |-> "idle",
     feed_id |-> "", full_sync |-> FALSE, sync_type |-> "",
     account_id |-> 0, account_name |-> "", sync_id |-> 0,
     entries |-> << >>, idx |-> 0, stats |-> ZeroStats,
     article_data |-> NoData, existing_id |-> 0, article_id |-> 0,
     result |-> NoResult, error |-> "",
     \* add_account arguments
     name |-> "", initial_sync |-> FALSE,
     \* sync_all_accounts locals
     todo |-> << >>,
     totals |-> [total_accounts |-> 0, total_new |-> 0, total_updated |-> 0,
                 total_failed |-> 0, synced |-> << >>],
     \* history of this sync_account invocation (not program state)
     fetch_outcome |-> "", created_sync |-> 0, outcome |-> << >>,
     F |-> {}, metrics_failed |-> {}, start_urls |-> {}, created |-> {},
     prior |-> NoPrior, metrics_calls |-> << >>, raced |-> {},
     seed_fetch |-> ""]

\* ------------------------------------------------------------------------
\* database.py operations on the tables
\* ------------------------------------------------------------------------
\* variant: only an active account is found
get_account_by_feed_id_ActiveOnly(accs, f) ==
    IF \E i \in 1..Len(accs) : accs[i].feed_id = f /\ accs[i].is_active
    THEN CHOOSE i \in 1..Len(accs) : accs[i].feed_id = f /\ accs[i].is_active
    ELSE 0

\* get_account_by_feed_id: the id of the row, 0 for None
get_account_by_feed_id(accs, f) ==
    IF \E i \in 1..Len(accs) : accs[i].feed_id = f
    THEN CHOOSE i \in 1..Len(accs) :
            accs[i].feed_id = f /\ \A j \in 1..(i - 1) : accs[j].feed_id # f
    ELSE 0

\* models.Account.feed_id unique=True
FeedIdUnique(accs, f) == \A i \in 1..Len(accs) : accs[i].feed_id # f

create_account(accs, f, name) ==
    Append(accs, [id |-> Len(accs) + 1, feed_id |-> f, name |-> name,
                  is_active |-> TRUE])

\* variant: the management operation deletes the row
deactivate_account_HardDelete(accs, id) == SelectSeq(accs, LAMBDA a : a.id # id)

\* update_account(account_id, is_active=False): the row stays, the flag falls
deactivate_account(accs, id) ==
    IF id \in 1..Len(accs)
    THEN [accs EXCEPT ![id] = [@ EXCEPT !.is_active = FALSE]]
    ELSE accs

\* get_all_accounts(active_only=True)
get_all_accounts(accs) ==
    SelectSeq(accs, LAMBDA a : a.is_active)

\* get_article_by_url: session.scalar gives the first matching row, 0 for None
get_article_by_url(arts, url) ==
    IF \E i \in 1..Len(arts) : arts[i].url = url
    THEN CHOOSE i \in 1..Len(arts) :
            arts[i].url = url /\ \A j \in 1..(i - 1) : arts[j].url # url
    ELSE 0

\* variant: the unique constraint on articles.url is missing
UrlUnique_Off(arts) == TRUE

\* models.Article.url unique=True: an INSERT/UPDATE that would leave two
\* rows with one URL is rejected (IntegrityError) and rolled back
UrlUnique(arts) ==
    \A i, j \in 1..Len(arts) : arts[i].url = arts[j].url => i = j

\* variant: the INSERT is never committed
create_article_NoCommit(arts, account_id, data, now) == arts

create_article(arts, account_id, data, now) ==
    Append(arts,
        [id |-> Len(arts) + 1, account_id |-> account_id,
         url |-> data.url, title |-> data.title, author |-> data.author,
         content |-> data.content, tags |-> data.tags, ai_summary |-> "",
         counters |-> ZeroCounters, scores |-> ZeroScores,
         is_simulated |-> FALSE, metrics_updated_at |-> 0,
         created_at |-> now, updated_at |-> now])

\* variant: the update re-creates the row under a fresh id
update_article_Reinsert(arts, id, data, now) ==
    [arts EXCEPT ![id] =
        [@ EXCEPT !.id = Len(arts) + 1, !.url = data.url, !.title = data.title,
                  !.author = data.author, !.content = data.content,
                  !.tags = data.tags, !.updated_at = now]]

\* update_article(id, **article_data): every key of the payload is a column
update_article(arts, id, data, now) ==
    [arts EXCEPT ![id] =
        [@ EXCEPT !.url = data.url, !.title = data.title,
                  !.author = data.author, !.content = data.content,
                  !.tags = data.tags, !.updated_at = now]]

\* sync_manager.py:125-136: apply the metrics, recompute the scores, commit
\* (`if article_db:` - a missing row is left alone)
apply_metrics(arts, id, m, now) ==
    IF id \in 1..Len(arts)
    THEN [arts EXCEPT ![id] =
            [@ EXCEPT !.counters = m.counters, !.is_simulated = m.is_simulated,
                      !.metrics_updated_at = now,
                      !.scores = calculate_scores(m.counters),
                      !.updated_at = now]]
    ELSE arts

\* variant: the record is born already finalized
create_sync_history_Done(hist, account_id, sync_type) ==
    Append(hist,
        [id |-> Len(hist) + 1, account_id |-> account_id,
         sync_type |-> sync_type, status |-> "success",
         articles_fetched |-> 0, articles_new |-> 0, articles_updated |-> 0,
         articles_failed |-> 0, error_message |-> "", completed_at |-> 0,
         writes |-> 0])

create_sync_history(hist, account_id, sync_type) ==
    Append(hist,
        [id |-> Len(hist) + 1, account_id |-> account_id,
         sync_type |-> sync_type, status |-> "running",
         articles_fetched |-> 0, articles_new |-> 0, articles_updated |-> 0,
         articles_failed |-> 0, error_message |-> "", completed_at |-> 0,
         writes |-> 0])

\* update_sync_history(id, status="success", articles_*=..., completed_at=now)
finalize_success(hist, id, stats, now) ==
    [hist EXCEPT ![id] =
        [@ EXCEPT !.status = "success", !.articles_fetched = stats.fetched,
                  !.articles_new = stats.new, !.articles_updated = stats.updated,
                  !.articles_failed = stats.failed, !.completed_at = now,
                  !.writes = @ + 1]]

\* variant: the failure path records the error but forgets the status
finalize_failed_NoStatus(hist, id, err, now) ==
    [hist EXCEPT ![id] = [@ EXCEPT !.error_message = err, !.completed_at = now]]

\* update_sync_history(id, status="failed", error_message=str(e), completed_at=now)
finalize_failed(hist, id, err, now) ==
    [hist EXCEPT ![id] =
        [@ EXCEPT !.status = "failed", !.error_message = err,
                  !.completed_at = now, !.writes = @ + 1]]

Urls(arts) == {arts[i].url : i \in 1..Len(arts)}

\* ------------------------------------------------------------------------
\* wewe_client.RateLimiter
\* ------------------------------------------------------------------------
\* the rolling window of wait_if_needed, in seconds
Window == 60

\* RateLimiter.__init__: max_requests = n, requests = []; `released` is the
\* history of the times at which wait_if_needed returned (not program state)
NewLimiter(n) == [max_requests |-> n, requests |-> << >>, released |-> << >>]

\* [req_time for req_time in self.requests if now - req_time < 60]
RECURSIVE Recent(_, _)
Recent(reqs, t) ==
    IF reqs = << >> THEN << >>
    ELSE IF t - Head(reqs) < Window
         THEN <<Head(reqs)>> \o Recent(Tail(reqs), t)
         ELSE Recent(Tail(reqs), t)

\* the time wait_if_needed sleeps when called at t with the evicted list
SleepTime(lim, kept, t) ==
    IF Len(kept) >= lim.max_requests /\ Window - (t - kept[1]) > 0
    THEN Window - (t - kept[1])
    ELSE 0

\* wait_if_needed called at time t: evict, sleep when the window is full
\* (and then forget every timestamp), append the time of the call
wait_if_needed(lim, t) ==
    LET kept  == Recent(lim.requests, t)
        sleep == SleepTime(lim, kept, t) IN
    [lim EXCEPT !.requests = Append(IF sleep > 0 THEN << >> ELSE kept, t),
                !.released = Append(@, t + sleep)]

\* ------------------------------------------------------------------------
\* cache.SimpleCache and the `cached` decorator
\* ------------------------------------------------------------------------
\* Python's None where a feed document is expected
None == [none |-> TRUE]

\* @cached(ttl=1800) on fetch_feed and fetch_all_feeds
FeedTtl == 1800

\* variant: the key is built from the function name alone
cache_key_NameOnly(func, target, style) == <<func, << >>, << >>>>

\* cached.wrapper: cache_key = f"{func.__name__}:{str(args)}:{str(kwargs)}";
\* args and kwargs are the arguments as the caller spelled them
cache_key(func, target, style) ==
    LET id == IF target = "all" THEN << >> ELSE <<target>> IN
    IF style = "default" THEN <<func, id, << >>>>
    ELSE <<func, id, <<"format", "json">>>>

\* no cache file
NoEntry == [exists |-> FALSE, value |-> None, expires_at |-> 0]

\* variant: an entry is served whatever its age
cache_get_NoExpiry(files, key, t) ==
    IF key \notin DOMAIN files \/ ~files[key].exists THEN None
    ELSE files[key].value

\* variant: a stored null is handed back as a value of its own
cache_get_ServesNull(files, key, t) ==
    IF key \notin DOMAIN files \/ ~files[key].exists THEN None
    ELSE IF t > files[key].expires_at THEN None
    ELSE IF files[key].value = None THEN [null |-> TRUE]
    ELSE files[key].value

\* SimpleCache.get at time t (settings.enable_cache is True): None when the
\* file is missing or `utcnow() > expires_at`, else the stored value
cache_get(files, key, t) ==
    IF key \notin DOMAIN files \/ ~files[key].exists THEN None
    ELSE IF t > files[key].expires_at THEN None
    ELSE files[key].value

\* SimpleCache.get also unlinks the file of an expired entry
cache_after_get(files, key, t) ==
    IF key \in DOMAIN files /\ files[key].exists /\ t > files[key].expires_at
    THEN [files EXCEPT ![key] = NoEntry]
    ELSE files

\* SimpleCache.set at time t: expires_at = utcnow() + ttl; a failing write
\* is only logged and leaves no readable file; json.dump followed by
\* json.load of a feed document gives objects, arrays and strings back as
\* dicts, lists and strings
cache_set(files, key, value, ttl, t, written) ==
    LET JsonRoundTrip(doc) ==
            IF doc = None THEN None
            ELSE [title |-> doc.title,
                  items |-> [i \in 1..Len(doc.items) |->
                                Entry(doc.items[i].url, doc.items[i].title,
                                      doc.items[i].author, doc.items[i].content)]] IN
    [k \in DOMAIN files \cup {key} |->
        IF k = key
        THEN (IF written
              THEN [exists |-> TRUE, value |-> JsonRoundTrip(value),
                    expires_at |-> t + ttl]
              ELSE NoEntry)
        ELSE files[k]]

\* an empty cache directory
NoFiles == [k \in {} |-> NoEntry]

\* MetricsFetcher.__init__ with settings.jizhile_api_key set (config.py:46)
NewMetricsFetcher(key) == [enabled |-> key, requests |-> 0]

\* ContentFetcher.__init__: request_delay = 2, last_request_time = 0
NewContentFetcher == [last_request_time |-> 0, starts |-> << >>]

\* the fetchers before their first call
AsideInit ==
    /\ metrics_fetcher = NewMetricsFetcher(TRUE)
    /\ content_fetcher = NewContentFetcher
    /\ probe = ([kind |-> "none"])

\* the components before the first request
ComponentsInit ==
    /\ time = 0
    /\ limiter = NewLimiter(1)
    /\ cache = NoFiles
    /\ client = [upstream |-> << >>, writable |-> TRUE, requests |-> 0,
                 log |-> << >>]
    /\ AsideInit

\* ------------------------------------------------------------------------
\* Init: empty store, nobody running
\* ------------------------------------------------------------------------
Init ==
    /\ accounts = << >>
    /\ articles = << >>
    /\ syncs = << >>
    /\ clock = 1
    /\ calls = 0
    /\ faults = 0
    /\ edits = 0
    /\ run = [p \in Procs |-> IdleRun]
    /\ last = [f \in FeedIds |-> NoPrior]
    /\ ComponentsInit

Upd(p, r) == run' = [run EXCEPT ![p] = r]

\* the environment may inject a fault while the budget lasts
\* events spent so far
Spent == calls + faults + edits

Faulty == IF Spent < MaxEvents THEN BOOLEAN ELSE {FALSE}
Cost(b) == IF b THEN 1 ELSE 0

\* an exception leaves the operation and reaches its caller
Raised(r, err) == [r EXCEPT !.pc = "raised", !.error = err]

\* `return {...}` of sync_account
Returned(r, res) == [r EXCEPT !.pc = "ret", !.result = res]

Failure(err) == [NoResult EXCEPT !.error = err]

\* ------------------------------------------------------------------------
\* sync_account(feed_id, sync_type, full_sync)
\* ------------------------------------------------------------------------
\* a fresh sync_account frame inside frame r
EnterSync(r, f, kind, full) ==
    [r EXCEPT !.pc = "lookup", !.feed_id = f, !.sync_type = kind,
              !.full_sync = full,
              !.account_id = 0, !.account_name = "", !.sync_id = 0,
              !.entries = << >>, !.idx = 0, !.stats = ZeroStats,
              !.article_data = NoData, !.existing_id = 0, !.article_id = 0,
              !.result = NoResult, !.error = "",
              !.fetch_outcome = "", !.created_sync = 0, !.outcome = << >>,
              !.F = {}, !.metrics_failed = {}, !.start_urls = {},
              !.metrics_calls = << >>, !.raced = {}, !.seed_fetch = "",
              !.created = {}, !.prior = NoPrior]

\* a caller invokes sync_account (web_app.api_sync_account, cli)
StartSync(p) ==
    /\ run[p].op = "idle"
    /\ Spent < MaxEvents
    /\ \E f \in FeedIds, full \in BOOLEAN :
          Upd(p, EnterSync([IdleRun EXCEPT !.op = "sync"], f, "manual", full))
    /\ calls' = calls + 1
    /\ clock' = clock + 1
    /\ UNCHANGED <<accounts, articles, syncs, faults, edits, last>>
    /\ UNCHANGED components

\* lines 43-45: account = db.get_account_by_feed_id(feed_id)
SyncLookup(p) ==
    /\ run[p].pc = "lookup"
    /\ \E dbfail \in Faulty :
          /\ faults' = faults + Cost(dbfail)
          /\ LET r == run[p]
                 id == get_account_by_feed_id(accounts, r.feed_id) IN
             IF dbfail THEN Upd(p, Raised(r, "db"))
             ELSE IF id # 0
                  THEN Upd(p, [r EXCEPT !.pc = "history", !.account_id = id,
                                        !.account_name = accounts[id].name])
                  ELSE Upd(p, [r EXCEPT !.pc = "seed"])
    /\ UNCHANGED <<accounts, articles, syncs, clock, calls, edits, last>>
    /\ UNCHANGED components

\* variant: the account is created whatever the fetch returned
SeedFetched_Ignored(ev) == TRUE

\* `if not feed_data: return {"success": False, ...}` (lines 49-54, 265-270)
SeedFetched(ev) == ev # "fetch_none"

\* what the seeding fetch returned, kept with the invocation
SeedFetch(ev) == IF ev = "fetch_none" THEN "none" ELSE "doc"

\* lines 46-61: fetch the feed once to seed the new account, create it
SyncSeed(p) ==
    /\ run[p].pc = "seed"
    /\ \E ev \in (IF Spent < MaxEvents THEN {"ok", "fetch_none", "dbfail"} ELSE {"ok"}) :
          /\ faults' = faults + Cost(ev # "ok")
          /\ LET r == [run[p] EXCEPT !.seed_fetch = SeedFetch(ev)] IN
             IF ~SeedFetched(ev)
             THEN /\ Upd(p, Returned(r, Failure("Failed to fetch feed data")))
                  /\ UNCHANGED accounts
             ELSE IF ev = "dbfail" \/ ~FeedIdUnique(accounts, r.feed_id)
                  THEN /\ Upd(p, Raised(r, "db"))
                       /\ UNCHANGED accounts
                  ELSE /\ accounts' = create_account(accounts, r.feed_id,
                                                     FeedTitle(r.feed_id))
                       /\ Upd(p, [r EXCEPT !.pc = "history",
                                           !.account_id = Len(accounts) + 1,
                                           !.account_name = FeedTitle(r.feed_id)])
    /\ UNCHANGED <<articles, syncs, clock, calls, edits, last>>
    /\ UNCHANGED components

\* lines 63-71: sync_history = db.create_sync_history(account_id, sync_type)
CreateHistory(p) ==
    /\ run[p].pc = "history"
    /\ \E dbfail \in Faulty :
          /\ faults' = faults + Cost(dbfail)
          /\ LET r == run[p] IN
             IF dbfail
             THEN /\ Upd(p, Raised(r, "db"))
                  /\ UNCHANGED syncs
             ELSE /\ syncs' = create_sync_history(syncs, r.account_id, r.sync_type)
                  /\ Upd(p, [r EXCEPT !.pc = "fetch", !.sync_id = Len(syncs) + 1,
                                      !.created_sync = @ + 1])
    /\ UNCHANGED <<accounts, articles, clock, calls, edits, last>>
    /\ UNCHANGED components

\* lines 73-86: entries = wewe_client.get_feed_entries(feed_id, limit);
\* stats = {"fetched": len(entries), ...}.  get_feed_entries turns a missing
\* document into []; a document whose items cannot be sliced or measured
\* raises inside the try block
FetchEntries(p) ==
    /\ run[p].pc = "fetch"
    /\ \E got \in (IF Spent < MaxEvents THEN ({"none", "malformed", "doc"}) ELSE {"doc"}) :
          /\ faults' = faults + Cost(got # "doc")
          /\ LET r == run[p]
                 limit == IF r.full_sync THEN 0 ELSE max_articles
                 items == IF got = "doc"
                          THEN LimitItems(FeedItems(r.feed_id), limit)
                          ELSE << >>
                 r1 == [r EXCEPT !.fetch_outcome = got,
                                 !.start_urls = Urls(articles),
                                 !.prior = last[r.feed_id]] IN
             IF got = "malformed"
             THEN Upd(p, [r1 EXCEPT !.pc = "finalize_failed", !.error = "TypeError"])
             ELSE Upd(p, [r1 EXCEPT !.pc = IF items = << >> THEN "finalize"
                                           ELSE "entry",
                                    !.entries = items, !.idx = 1,
                                    !.stats = [ZeroStats EXCEPT
                                                  !.fetched = Len(items)]])
    /\ UNCHANGED <<accounts, articles, syncs, clock, calls, edits, last>>
    /\ UNCHANGED components

\* advance the `for entry in entries` loop
NextEntry(r) ==
    [r EXCEPT !.idx = @ + 1,
              !.pc = IF r.idx + 1 > Len(r.entries) THEN "finalize" ELSE "entry",
              !.article_data = NoData, !.existing_id = 0, !.article_id = 0]

\* variant: no per-entry handler, the exception escapes the loop
EntryFailed_Abort(r) ==
    [r EXCEPT !.pc = "finalize_failed", !.error = "entry", !.F = @ \cup {r.idx},
              !.outcome = Append(@, "failed")]

\* the per-entry `except Exception`: stats["failed"] += 1 (lines 140-142)
EntryFailed(r) ==
    NextEntry([r EXCEPT !.stats.failed = @ + 1, !.F = @ \cup {r.idx},
                        !.outcome = Append(@, "failed")])

\* variant: the full_sync test is inverted
ShouldSkip_Inverted(existing, full_sync) == existing # 0 /\ full_sync

\* lines 101-105: an entry whose URL is stored is skipped unless full_sync
ShouldSkip(existing, full_sync) == existing # 0 /\ ~full_sync

\* lines 89-105: process the entry, author fallback, look the URL up;
\* an existing URL is skipped unless full_sync.  raises: process_article,
\* the fallback or the lookup raised
ProcessEntry(p) ==
    /\ run[p].pc = "entry"
    /\ \E raises \in Faulty :
          /\ faults' = faults + Cost(raises)
          /\ LET r == run[p]
                 data == AuthorFallback(process_article(r.entries[r.idx]),
                                        r.account_name)
                 existing == get_article_by_url(articles, data.url) IN
             IF raises THEN Upd(p, EntryFailed(r))
             ELSE IF ShouldSkip(existing, r.full_sync)
                  THEN Upd(p, NextEntry([r EXCEPT !.stats.skipped = @ + 1,
                                                  !.outcome = Append(@, "skipped")]))
                  ELSE Upd(p, [r EXCEPT !.pc = "persist", !.article_data = data,
                                        !.existing_id = existing])
    /\ UNCHANGED <<accounts, articles, syncs, clock, calls, edits, last>>
    /\ UNCHANGED components

\* lines 107-120: db.update_article(existing.id, **article_data) or
\* db.create_article(account_id=..., **article_data)
PersistEntry(p) ==
    /\ run[p].pc = "persist"
    /\ \E dbfail \in Faulty :
          /\ faults' = faults + Cost(dbfail)
          /\ LET r == run[p]
                 written == IF r.existing_id # 0
                            THEN update_article(articles, r.existing_id,
                                                r.article_data, clock)
                            ELSE create_article(articles, r.account_id,
                                                r.article_data, clock) IN
             IF dbfail \/ ~UrlUnique(written)
             THEN /\ Upd(p, EntryFailed([r EXCEPT !.raced =
                                             IF dbfail THEN @ ELSE @ \cup {r.idx}]))
                  /\ UNCHANGED articles
             ELSE /\ articles' = written
                  /\ IF r.existing_id # 0
                     THEN Upd(p, [r EXCEPT !.pc = "metrics",
                                           !.article_id = r.existing_id,
                                           !.stats.updated = @ + 1,
                                           !.outcome = Append(@, "updated")])
                     ELSE Upd(p, [r EXCEPT !.pc = "metrics",
                                           !.article_id = Len(articles) + 1,
                                           !.stats.new = @ + 1,
                                           !.outcome = Append(@, "new"),
                                           !.created = @ \cup {r.article_data.url}])
    /\ UNCHANGED <<accounts, syncs, clock, calls, edits, last>>
    /\ UNCHANGED components

\* variant: the inner handler also counts the entry as failed
MetricsFailed_Counted(r) ==
    NextEntry([r EXCEPT !.metrics_failed = @ \cup {r.idx}, !.stats.failed = @ + 1])

\* lines 137-138: the inner `except Exception` only logs; the loop goes on
MetricsFailed(r) == NextEntry([r EXCEPT !.metrics_failed = @ \cup {r.idx}])

\* variant: the fetcher is not invoked
MetricsCalled_Never(r) == r

\* line 124: metrics = metrics_fetcher.fetch_article_metrics(article_data["url"])
\* is the first statement of the sub-step: the invocation is recorded
MetricsCalled(r) == [r EXCEPT !.metrics_calls = Append(@, r.idx)]

\* lines 122-138: fetch the metrics, apply them, recompute the scores and
\* commit; the inner `except Exception` only logs
MetricsStep(p) ==
    /\ run[p].pc = "metrics"
    /\ \E ev \in (IF Spent < MaxEvents THEN {"real", "simulated", "fails"} ELSE {"real"}) :
          /\ faults' = faults + Cost(ev # "real")
          /\ LET r == run[p]
                 m == fetch_article_metrics(r.article_data.url, ev = "real") IN
             IF ev = "fails"
             THEN /\ Upd(p, MetricsFailed(MetricsCalled(r)))
                  /\ UNCHANGED articles
             ELSE /\ articles' = apply_metrics(articles, r.article_id, m, clock)
                  /\ Upd(p, NextEntry(MetricsCalled(r)))
    /\ UNCHANGED <<accounts, syncs, clock, calls, edits, last>>
    /\ UNCHANGED components

Summary(r, ok) ==
    [done |-> TRUE, full_sync |-> r.full_sync, success |-> ok,
     entries |-> r.entries, failed |-> r.stats.failed]

\* lines 144-165: finalize the SyncRun as success and return the stats; a
\* rejected write lands in the `except Exception` of line 167
FinalizeSuccess(p) ==
    /\ run[p].pc = "finalize"
    /\ \E dbfail \in Faulty :
          /\ faults' = faults + Cost(dbfail)
          /\ LET r == run[p] IN
             IF dbfail
             THEN /\ Upd(p, [r EXCEPT !.pc = "finalize_failed", !.error = "db"])
                  /\ UNCHANGED <<syncs, last>>
             ELSE /\ syncs' = finalize_success(syncs, r.sync_id, r.stats, clock)
                  /\ last' = [last EXCEPT ![r.feed_id] = Summary(r, TRUE)]
                  /\ Upd(p, Returned(r, [success |-> TRUE, error |-> "",
                                         has_stats |-> TRUE, stats |-> r.stats,
                                         account |-> r.account_name]))
    /\ UNCHANGED <<accounts, articles, clock, calls, edits>>
    /\ UNCHANGED components

\* lines 167-181: finalize the SyncRun as failed and return the error; the
\* write is not guarded, a rejected one leaves sync_account as an exception
FinalizeFailed(p) ==
    /\ run[p].pc = "finalize_failed"
    /\ \E dbfail \in Faulty :
          /\ faults' = faults + Cost(dbfail)
          /\ LET r == run[p] IN
             IF dbfail
             THEN /\ Upd(p, Raised(r, "db"))
                  /\ UNCHANGED <<syncs, last>>
             ELSE /\ syncs' = finalize_failed(syncs, r.sync_id, r.error, clock)
                  /\ last' = [last EXCEPT ![r.feed_id] = Summary(r, FALSE)]
                  /\ Upd(p, Returned(r, Failure(r.error)))
    /\ UNCHANGED <<accounts, articles, clock, calls, edits>>
    /\ UNCHANGED components

\* ------------------------------------------------------------------------
\* add_account(feed_id, name, initial_sync)
\* ------------------------------------------------------------------------

StartAdd(p) ==
    /\ run[p].op = "idle"
    /\ Spent < MaxEvents
    /\ \E f \in FeedIds, nm \in ({""}), initial \in BOOLEAN :
          Upd(p, [IdleRun EXCEPT !.op = "add", !.pc = "add_lookup",
                                 !.feed_id = f, !.name = nm,
                                 !.initial_sync = initial])
    /\ calls' = calls + 1
    /\ clock' = clock + 1
    /\ UNCHANGED <<accounts, articles, syncs, faults, edits, last>>
    /\ UNCHANGED components

\* lines 255-262: existing = db.get_account_by_feed_id(feed_id)
AddLookup(p) ==
    /\ run[p].pc = "add_lookup"
    /\ \E dbfail \in Faulty :
          /\ faults' = faults + Cost(dbfail)
          /\ LET r == run[p] IN
             IF dbfail THEN Upd(p, [r EXCEPT !.pc = "top_raised", !.error = "db"])
             ELSE IF get_account_by_feed_id(accounts, r.feed_id) # 0
                  THEN Upd(p, [r EXCEPT !.pc = "top_ret",
                                        !.result = Failure("Account already exists")])
                  ELSE Upd(p, [r EXCEPT !.pc = "add_seed"])
    /\ UNCHANGED <<accounts, articles, syncs, clock, calls, edits, last>>
    /\ UNCHANGED components

\* lines 264-293: fetch the feed, create the account, start the initial
\* full sync when requested
AddSeed(p) ==
    /\ run[p].pc = "add_seed"
    /\ \E ev \in (IF Spent < MaxEvents THEN {"ok", "fetch_none", "dbfail"} ELSE {"ok"}) :
          /\ faults' = faults + Cost(ev # "ok")
          /\ LET r == [run[p] EXCEPT !.seed_fetch = SeedFetch(ev)]
                 nm == IF r.name # "" THEN r.name ELSE FeedTitle(r.feed_id) IN
             IF ~SeedFetched(ev)
             THEN /\ Upd(p, [r EXCEPT !.pc = "top_ret",
                                      !.result = Failure("Failed to fetch feed data")])
                  /\ UNCHANGED accounts
             ELSE IF ev = "dbfail" \/ ~FeedIdUnique(accounts, r.feed_id)
                  THEN /\ Upd(p, [r EXCEPT !.pc = "top_raised", !.error = "db"])
                       /\ UNCHANGED accounts
                  ELSE /\ accounts' = create_account(accounts, r.feed_id, nm)
                       /\ IF r.initial_sync
                          THEN Upd(p, [EnterSync([r EXCEPT !.name = nm],
                                                 r.feed_id, "manual", TRUE)
                                          EXCEPT !.seed_fetch = r.seed_fetch])
                          ELSE Upd(p, [r EXCEPT !.pc = "top_ret",
                                          !.result = [NoResult EXCEPT
                                                         !.success = TRUE,
                                                         !.account = nm]])
    /\ UNCHANGED <<articles, syncs, clock, calls, edits, last>>
    /\ UNCHANGED components

\* lines 283-288: the initial sync came back; its result is wrapped
AddAfterSync(p) ==
    /\ run[p].op = "add"
    /\ run[p].pc \in {"ret", "raised"}
    /\ LET r == run[p] IN
       IF r.pc = "raised"
       THEN Upd(p, [r EXCEPT !.pc = "top_raised"])
       ELSE Upd(p, [r EXCEPT !.pc = "top_ret",
                             !.result = [NoResult EXCEPT !.success = TRUE,
                                                         !.account = r.name]])
    /\ UNCHANGED <<accounts, articles, syncs, clock, calls, faults, edits, last>>
    /\ UNCHANGED components

\* ------------------------------------------------------------------------
\* sync_all_accounts(sync_type)
\* ------------------------------------------------------------------------
StartAll(p) ==
    /\ run[p].op = "idle"
    /\ Spent < MaxEvents
    /\ Upd(p, [IdleRun EXCEPT !.op = "all", !.pc = "all_list"])
    /\ calls' = calls + 1
    /\ clock' = clock + 1
    /\ UNCHANGED <<accounts, articles, syncs, faults, edits, last>>
    /\ UNCHANGED components

\* lines 195-210: list the active accounts; none: empty result, otherwise
\* sync the first one incrementally
AllList(p) ==
    /\ run[p].pc = "all_list"
    /\ \E dbfail \in Faulty :
          /\ faults' = faults + Cost(dbfail)
          /\ LET r == run[p]
                 listed == get_all_accounts(accounts)
                 active == [i \in 1..Len(listed) |-> listed[i].feed_id] IN
             IF dbfail THEN Upd(p, [r EXCEPT !.pc = "top_raised", !.error = "db"])
             ELSE IF active = << >>
                  THEN Upd(p, [r EXCEPT !.pc = "top_ret",
                                        !.result = [NoResult EXCEPT !.success = TRUE]])
                  ELSE Upd(p, EnterSync([r EXCEPT
                                            !.todo = Tail(active),
                                            !.totals.total_accounts = Len(active)],
                                        Head(active), "auto", FALSE))
    /\ UNCHANGED <<accounts, articles, syncs, clock, calls, edits, last>>
    /\ UNCHANGED components

\* r.get("stats", {}).get(key, 0)
StatOf(res, key) == IF res.has_stats THEN res.stats[key] ELSE 0

\* lines 206-234: collect the account's result, sync the next account or
\* return the totals
AllAfterSync(p) ==
    /\ run[p].op = "all"
    /\ run[p].pc \in {"ret", "raised"}
    /\ LET r == run[p]
           t == [r.totals EXCEPT
                    !.total_new = @ + StatOf(r.result, "new"),
                    !.total_updated = @ + StatOf(r.result, "updated"),
                    !.total_failed = @ + StatOf(r.result, "failed"),
                    !.synced = Append(@, r.feed_id)] IN
       IF r.pc = "raised"
       THEN Upd(p, [r EXCEPT !.pc = "top_raised"])
       ELSE IF r.todo # << >>
            THEN Upd(p, EnterSync([r EXCEPT !.totals = t, !.todo = Tail(r.todo)],
                                  Head(r.todo), "auto", FALSE))
            ELSE Upd(p, [r EXCEPT !.pc = "top_ret", !.totals = t,
                                  !.result = [NoResult EXCEPT !.success = TRUE]])
    /\ UNCHANGED <<accounts, articles, syncs, clock, calls, faults, edits, last>>
    /\ UNCHANGED components

\* the top-level operation hands its result (or its exception) to the caller
Finish(p) ==
    /\ \/ run[p].op = "sync" /\ run[p].pc \in {"ret", "raised"}
       \/ run[p].pc \in {"top_ret", "top_raised"}
    /\ Upd(p, IdleRun)
    /\ UNCHANGED <<accounts, articles, syncs, clock, calls, faults, edits, last>>
    /\ UNCHANGED components

\* ------------------------------------------------------------------------
\* Dashboard handlers writing the same rows (web_app.py)
\* ------------------------------------------------------------------------

\* api_summarize_article: article.ai_summary = summary; if tags: article.tags = tags
Summarize ==
    /\ Spent < MaxEvents
    /\ \E id \in 1..Len(articles) :
          articles' = [articles EXCEPT ![id] =
                          [@ EXCEPT !.ai_summary = "ai-summary",
                                    !.tags = ("ai-user"),
                                    !.updated_at = clock]]
    /\ edits' = edits + 1
    /\ UNCHANGED <<accounts, syncs, clock, calls, faults, run, last>>
    /\ UNCHANGED components

\* api_delete_account: db.update_account(account_id, is_active=False)
DeleteAccount ==
    /\ Spent < MaxEvents
    /\ \E id \in 1..Len(accounts) :
          accounts' = deactivate_account(accounts, id)
    /\ edits' = edits + 1
    /\ UNCHANGED <<articles, syncs, clock, calls, faults, run, last>>
    /\ UNCHANGED components

\* ------------------------------------------------------------------------
\* Specifications
\* ------------------------------------------------------------------------
Step(p) ==
    \/ StartSync(p) \/ SyncLookup(p) \/ SyncSeed(p) \/ CreateHistory(p)
    \/ FetchEntries(p) \/ ProcessEntry(p) \/ PersistEntry(p) \/ MetricsStep(p)
    \/ FinalizeSuccess(p) \/ FinalizeFailed(p)
    \/ StartAdd(p) \/ AddLookup(p) \/ AddSeed(p) \/ AddAfterSync(p)
    \/ StartAll(p) \/ AllList(p) \/ AllAfterSync(p)
    \/ Finish(p)

\* operations run one at a time: caller 1 only, plus the dashboard edits
Next == Step(1) \/ Summarize \/ DeleteAccount

Spec == Init /\ [][Next]_vars

\* two callers whose operations interleave (the dashboard serves requests
\* concurrently); all but three events of the budget are already spent
InitConc ==
    /\ accounts = << >>
    /\ articles = << >>
    /\ syncs = << >>
    /\ clock = 1
    /\ calls = 0
    /\ faults = 0
    /\ edits = MaxEvents - 3
    /\ run = [p \in Procs |-> IdleRun]
    /\ last = [f \in FeedIds |-> NoPrior]
    /\ ComponentsInit

\* each caller issues one request
NextConc == \E p \in Procs : Step(p) /\ calls' <= Cardinality(Procs)

SpecConc == InitConc /\ [][NextConc]_vars


\* ========================================================================
\* Properties
\* ========================================================================
Count(seq, v) == Cardinality({i \in 1..Len(seq) : seq[i] = v})

\* the caller's frame moved in this step
Moved(p) == run'[p] # run[p]

\* ------------------------------------------------------------------------
\* C1: whatever sync_account, sync_all_accounts and add_account operations
\* ran (incremental or full, with per-entry failures, also interleaved),
\* the store never holds two Article rows with the same URL.
\* ------------------------------------------------------------------------
C1_NoDuplicateUrl ==
    \A i, j \in 1..Len(articles) :
        articles[i].url = articles[j].url => i = j

\* a finished run met a URL that was already stored, and rows exist
C1_Witness ==
    \E p \in Procs :
        /\ run[p].pc = "ret"
        /\ run[p].result.success
        /\ run[p].stats.skipped + run[p].stats.updated + run[p].stats.failed > 0
        /\ Len(articles) >= 2

\* ------------------------------------------------------------------------
\* C2 as claimed: a second incremental run over the same feed reports
\* new = 0 (and inserts no URL that was stored before it started).
\* ------------------------------------------------------------------------
SecondIncrementalRun(r) ==
    /\ r.pc = "ret"
    /\ r.result.success
    /\ ~r.full_sync
    /\ r.prior.done
    /\ r.prior.success
    /\ ~r.prior.full_sync
    /\ r.prior.entries = r.entries

C2_Original ==
    \A p \in Procs :
        /\ SecondIncrementalRun(run[p]) => run[p].result.stats.new = 0
        /\ run[p].created \cap run[p].start_urls = {}

\* C2 amended: when the previous incremental run over the same entries
\* reported failed = 0, the second incremental run reports new = 0; and no
\* run ever inserts a row for a URL that was stored before it started.
C2_SecondRunNothingNew ==
    \A p \in Procs :
        /\ (SecondIncrementalRun(run[p]) /\ run[p].prior.failed = 0)
              => run[p].result.stats.new = 0
        /\ run[p].created \cap run[p].start_urls = {}

\* a second incremental run that fetched the same non-empty entries and
\* skipped all of them
C2_Witness ==
    \E p \in Procs :
        /\ SecondIncrementalRun(run[p])
        /\ run[p].prior.failed = 0
        /\ run[p].entries # << >>
        /\ run[p].stats.skipped = Len(run[p].entries)

\* ------------------------------------------------------------------------
\* C3: in incremental mode an entry whose URL is found in the store is
\* counted as skipped and nothing is written: the articles table is left
\* exactly as it was (no content, counter, score, is_simulated flag or
\* metrics timestamp changes) and the entry never reaches the persist or
\* metrics steps.  (An entry whose processing raised is counted as failed.)
\* ------------------------------------------------------------------------
C3_SkipLeavesRowUntouched ==
    [][\A p \in Procs :
          LET r == run[p] IN
          (/\ r.pc = "entry"
           /\ ~r.full_sync
           /\ Moved(p)
           /\ r.entries[r.idx].url \in Urls(articles))
          => /\ articles' = articles
             /\ run'[p].pc \in {"entry", "finalize"}
             /\ \/ /\ run'[p].F = r.F \cup {r.idx}
                   /\ run'[p].stats = [r.stats EXCEPT !.failed = @ + 1]
                \/ /\ run'[p].F = r.F
                   /\ run'[p].stats = [r.stats EXCEPT !.skipped = @ + 1]]_vars

\* an incremental run skipped an entry of a row that carries metrics
C3_Witness ==
    \E p \in Procs :
        /\ ~run[p].full_sync
        /\ Count(run[p].outcome, "skipped") > 0
        /\ \E i \in 1..Len(articles) : articles[i].metrics_updated_at # 0

\* ------------------------------------------------------------------------
\* C4 as claimed: a full sync of an entry whose URL is stored changes only
\* content and metrics/score fields; the tag list, ai_summary, the owning
\* account, the creation timestamp and the id of every row keep their value.
\* ------------------------------------------------------------------------
C4_FullSyncKeepsForeignFields ==
    [][\A p \in Procs :
          LET r == run[p] IN
          (/\ r.pc \in {"persist", "metrics"}
           /\ r.full_sync
           /\ r.existing_id # 0
           /\ Moved(p))
          => /\ Len(articles') = Len(articles)
             /\ \A i \in 1..Len(articles) :
                   /\ articles'[i].id = articles[i].id
                   /\ articles'[i].account_id = articles[i].account_id
                   /\ articles'[i].created_at = articles[i].created_at
                   /\ articles'[i].ai_summary = articles[i].ai_summary
                   /\ articles'[i].tags = articles[i].tags]_vars

\* ------------------------------------------------------------------------
\* C5: every existing Article keeps its identity: no step removes a row or
\* changes its id or URL, and a full-sync overwrite of a stored URL adds no
\* row, is never counted as new and is counted as updated when applied.
\* ------------------------------------------------------------------------
C5_FullSyncKeepsIdentity ==
    [][/\ Len(articles') >= Len(articles)
       /\ \A i \in 1..Len(articles) :
             /\ articles'[i].id = articles[i].id
             /\ articles'[i].url = articles[i].url
       /\ \A p \in Procs :
             LET r == run[p] IN
             (r.pc = "persist" /\ r.existing_id # 0 /\ Moved(p))
             => /\ Len(articles') = Len(articles)
                /\ run'[p].stats.new = r.stats.new
                /\ \/ /\ \A i \in 1..Len(articles) :
                            i # r.existing_id => articles'[i] = articles[i]
                      /\ run'[p].stats = [r.stats EXCEPT !.updated = @ + 1]
                      /\ run'[p].article_id = r.existing_id
                   \/ /\ articles' = articles
                      /\ run'[p].stats = [r.stats EXCEPT !.failed = @ + 1]]_vars

\* a full sync overwrote a row created by an earlier operation
C5_Witness ==
    \E p \in Procs :
        /\ run[p].full_sync
        /\ run[p].pc = "ret"
        /\ run[p].stats.updated > 0
        /\ \E i \in 1..Len(articles) :
              articles[i].updated_at > articles[i].created_at

C8_FetchFailureFinalizedFailed ==
    \A p \in Procs :
        LET r == run[p] IN
        (r.fetch_outcome = "none" /\ r.created_sync = 1) =>
            /\ syncs[r.sync_id].status # "success"
            /\ r.pc = "ret" =>
                  /\ syncs[r.sync_id].status = "failed"
                  /\ syncs[r.sync_id].error_message # ""
                  /\ ~r.result.success

\* ------------------------------------------------------------------------
\* C9 as claimed: with a set F of raising entries, every entry outside F is
\* inserted, updated or skipped exactly as without F, the run finishes as
\* success and failed = |F|.
\* ------------------------------------------------------------------------
\* what the failure-free run does with entry i: the URLs stored at the start
\* and the URLs of the earlier entries are the ones already seen
RefOutcome(entries, i, urls0, full) ==
    IF entries[i].url \in urls0 \cup {entries[j].url : j \in 1..(i - 1)}
    THEN (IF full THEN "updated" ELSE "skipped")
    ELSE "new"

\* the finalizing success write was accepted or the loop never ran
LoopResult(r) ==
    /\ r.pc = "ret"
    /\ r.fetch_outcome \in {"doc", "none"}
    /\ r.result.error # "db"

C9_Original ==
    \A p \in Procs :
        LET r == run[p] IN
        /\ \A i \in 1..Len(r.outcome) :
              i \notin r.F =>
                 r.outcome[i] = RefOutcome(r.entries, i, r.start_urls, r.full_sync)
        /\ LoopResult(r) =>
              /\ r.result.success
              /\ r.result.stats.failed = Cardinality(r.F)

\* C9 amended: every entry outside F whose URL is not the URL of an earlier
\* entry in F is inserted, updated or skipped exactly as without F; every
\* entry is processed, failed = |F|, and the run finishes as success (as
\* failed only when the store rejects the finalizing success write).
C9_FailuresAreIsolated ==
    \A p \in Procs :
        LET r == run[p] IN
        /\ \A i \in 1..Len(r.outcome) :
              /\ i \in r.F <=> r.outcome[i] = "failed"
              /\ (/\ i \notin r.F
                  /\ \A j \in r.F : j < i => r.entries[j].url # r.entries[i].url)
                 => r.outcome[i] = RefOutcome(r.entries, i, r.start_urls,
                                              r.full_sync)
        /\ r.stats.failed = Cardinality(r.F)
        /\ r.pc \in {"finalize", "ret"} /\ r.fetch_outcome \in {"doc", "none"}
              => Len(r.outcome) = Len(r.entries)
        /\ LoopResult(r) =>
              /\ r.result.success
              /\ r.result.stats.failed = Cardinality(r.F)
        /\ (r.pc = "ret" /\ r.created_sync = 1 /\ ~r.result.success)
              => r.result.error \in {"db", "TypeError"}

\* a successful run with a failed entry followed by an inserted one
C9_Witness ==
    \E p \in Procs :
        LET r == run[p] IN
        /\ LoopResult(r)
        /\ r.result.success
        /\ \E i \in r.F : \E k \in (i + 1)..Len(r.outcome) : r.outcome[k] = "new"

\* ------------------------------------------------------------------------
\* C10 as claimed: a failing metrics/scoring sub-step adds one to the run's
\* failed count (the entry's new or updated count is kept).
\* ------------------------------------------------------------------------
C10_Original ==
    \A p \in Procs :
        run[p].stats.failed = Cardinality(run[p].F \cup run[p].metrics_failed)

\* C10 amended: a failing metrics/scoring sub-step is only logged: failed is
\* not incremented (it counts exactly the entries whose processing or
\* persisting raised), the entry's new or updated count is kept, and the
\* run continues with the next entry.
C10_MetricsFailureOnlyLogged ==
    /\ [](\A p \in Procs :
            LET r == run[p] IN
            /\ r.stats.failed = Cardinality(r.F)
            /\ r.stats.new = Count(r.outcome, "new")
            /\ r.stats.updated = Count(r.outcome, "updated")
            /\ \A i \in r.metrics_failed :
                  /\ i \in 1..Len(r.outcome)
                  /\ r.outcome[i] \in {"new", "updated"}
            /\ (r.metrics_failed # {} /\ r.pc \in {"finalize", "ret"})
                  => Len(r.outcome) = Len(r.entries))
    /\ [][\A p \in Procs :
             LET r == run[p] IN
             (r.pc = "metrics" /\ Moved(p) /\ run'[p].metrics_failed # r.metrics_failed)
             => /\ run'[p].stats = r.stats
                /\ articles' = articles
                /\ run'[p].idx = r.idx + 1
                /\ run'[p].pc \in {"entry", "finalize"}]_vars

\* a successful run in which a metrics sub-step failed and a later entry
\* was still processed
C10_Witness ==
    \E p \in Procs :
        LET r == run[p] IN
        /\ r.pc = "ret"
        /\ r.result.success
        /\ \E i \in r.metrics_failed : i < Len(r.outcome)

\* ------------------------------------------------------------------------
\* C11: within a sync_account run the metrics fetcher is invoked exactly
\* once for each entry that was inserted or updated, after that insert or
\* update, and never for an entry that was skipped or whose processing
\* failed.
\* ------------------------------------------------------------------------
C11_MetricsOncePerWrittenEntry ==
    \A p \in Procs :
        LET r == run[p]
            \* the entry whose insert or update is done, its sub-step pending
            pending == IF r.pc = "metrics" THEN {r.idx} ELSE {} IN
        /\ \A k \in 1..Len(r.metrics_calls) :
              r.metrics_calls[k] \in 1..Len(r.outcome)
        /\ \A i \in 1..Len(r.outcome) :
              Count(r.metrics_calls, i) =
                 IF r.outcome[i] \in {"new", "updated"} /\ i \notin pending
                 THEN 1 ELSE 0
        /\ r.pc = "metrics" =>
              r.idx = Len(r.outcome) /\ r.outcome[r.idx] \in {"new", "updated"}

\* a finished run with a written entry (fetcher invoked once for it)
\* followed by a skipped entry (fetcher not invoked)
C11_Witness ==
    \E p \in Procs :
        LET r == run[p] IN
        /\ r.pc = "ret"
        /\ r.result.success
        /\ r.outcome = <<"new", "skipped">>
        /\ r.metrics_calls = <<1>>

\* ------------------------------------------------------------------------
\* C12: sync_account, sync_all_accounts and add_account never raise to
\* their caller: whatever network or persistence operation fails, the
\* operation ends by returning a result object with a success flag.
\* ------------------------------------------------------------------------
C12_NeverRaises ==
    \A p \in Procs : run[p].pc \notin {"raised", "top_raised"}

\* ------------------------------------------------------------------------
\* C13: sync_all_accounts invokes sync_account once for every account that
\* was active when it listed them and for no other account, and the failure
\* of one account's sync never prevents the accounts after it from being
\* synced: when sync_all_accounts ends, no listed account is left unsynced
\* and the accounts synced are the accounts listed, in order.
\* ------------------------------------------------------------------------
C13_AllActiveAccountsSynced ==
    \A p \in Procs :
        LET r == run[p] IN
        (r.op = "all" /\ r.pc \in {"top_ret", "top_raised"})
        => /\ r.todo = << >>
           /\ r.pc = "top_ret" => Len(r.totals.synced) = r.totals.total_accounts

\* ------------------------------------------------------------------------
\* C14: with two sync_account runs interleaved (two feeds carrying the same
\* URL, or the same feed twice), at most one Article row exists for a URL at
\* every point, and a run whose insert loses against the other run's insert
\* of the same URL is not aborted: the entry is counted as failed, the run
\* goes on with its next entry and is finalized as success.
\* ------------------------------------------------------------------------
C14_InterleavedUpsert ==
    /\ [](/\ \A u \in Urls(articles) : Cardinality({k \in 1..Len(articles) : articles[k].url = u}) = 1
          /\ \A p \in Procs :
                LET r == run[p] IN
                /\ r.raced \subseteq r.F
                /\ \A i \in r.raced :
                      Cardinality({k \in 1..Len(articles) :
                                      articles[k].url = r.entries[i].url}) = 1
                /\ (r.raced # {} /\ r.pc \in {"finalize_failed", "raised"})
                      => r.error = "db"
                /\ (r.raced # {} /\ r.pc = "ret")
                      => /\ Len(r.outcome) = Len(r.entries)
                         /\ r.result.success \/ r.result.error = "db")
    /\ [][\A p \in Procs :
             (run[p].pc = "persist" /\ run'[p].raced # run[p].raced)
             => /\ run'[p].pc \in {"entry", "finalize"}
                /\ run'[p].idx = run[p].idx + 1
                /\ articles' = articles]_vars

\* a run lost an insert against the other run and still finished as success
C14_Witness ==
    \E p \in Procs :
        /\ run[p].pc = "ret"
        /\ run[p].raced # {}
        /\ run[p].result.success
        /\ \E q \in Procs : q # p /\ run[q].created # {}

\* ------------------------------------------------------------------------
\* The rate limiter on its own: one client thread calls wait_if_needed
\* (through _make_request) at arbitrary times; the pipeline is idle
\* ------------------------------------------------------------------------
pipeline == <<accounts, articles, syncs, clock, calls, faults, edits, run, last>>

PipelineIdle ==
    /\ accounts = << >>
    /\ articles = << >>
    /\ syncs = << >>
    /\ clock = 1
    /\ calls = 0
    /\ faults = 0
    /\ edits = 0
    /\ run = [p \in Procs |-> IdleRun]
    /\ last = [f \in FeedIds |-> NoPrior]

InitLimiter ==
    /\ PipelineIdle
    /\ AsideInit
    /\ time = 0
    /\ \E n \in 1..MaxRate : limiter = NewLimiter(n)
    /\ cache = NoFiles
    /\ client = [upstream |-> << >>, writable |-> TRUE, requests |-> 0,
                 log |-> << >>]

LimiterElapse ==
    /\ \E d \in ({Window - 1, Window}) :
          /\ time + d <= MaxLimiterTime
          /\ time' = time + d
    /\ UNCHANGED <<pipeline, limiter, cache, client, aside>>

\* _make_request: self.rate_limiter.wait_if_needed(); the call returns once
\* its sleep is over, and the request is issued then
LimiterCall ==
    /\ Len(limiter.released) < MaxReleases
    /\ limiter' = wait_if_needed(limiter, time)
    /\ time' = time + SleepTime(limiter, Recent(limiter.requests, time), time)
    /\ UNCHANGED <<pipeline, cache, client, aside>>

SpecLimiter == InitLimiter /\ [][LimiterElapse \/ LimiterCall]_vars

\* ------------------------------------------------------------------------
\* C15: for a rate limiter configured with N >= 1, no more than N calls of
\* wait_if_needed are released within any rolling 60-second window: any
\* N + 1 consecutive releases span at least 60 seconds.
\* ------------------------------------------------------------------------
C15_AtMostNPerWindow ==
    \A i \in 1..Len(limiter.released) :
        LET j == i + limiter.max_requests IN
        j <= Len(limiter.released)
        => limiter.released[j] - limiter.released[i] >= Window

\* ------------------------------------------------------------------------
\* The feed client on its own: fetch_feed, fetch_all_feeds and
\* get_feed_entries called in any order against fixed upstream responses,
\* while time passes and cache files disappear; the pipeline is idle
\* ------------------------------------------------------------------------

\* the document behind {base_url}/feeds/{id}.json
FeedDoc(target) ==
    IF target = "all"
    THEN [title |-> "All", items |-> FeedItems("fA") \o FeedItems("fB")]
    ELSE [title |-> FeedTitle(target), items |-> FeedItems(target)]

\* variant: the handler of _make_request is missing
make_request_Uncaught(kind) ==
    [raised |-> kind \in {"network_error", "http_error"},
     response |-> [body |-> kind]]

\* _make_request after wait_if_needed: session.get and raise_for_status
\* raise requests' RequestException for a failed connection and for a
\* non-2xx status, the handler returns None
make_request(kind) ==
    [raised |-> FALSE,
     response |-> IF kind \in {"network_error", "http_error"} THEN None
                  ELSE [body |-> kind]]

\* the body of fetch_feed / fetch_all_feeds (format "json"): None without a
\* response, None when response.json() raises, else the document
fetch_body(target, kind) ==
    LET r == make_request(kind) IN
    IF r.raised THEN [raised |-> TRUE, value |-> None]
    ELSE IF r.response = None \/ r.response.body = "bad_body"
         THEN [raised |-> FALSE, value |-> None]
         ELSE [raised |-> FALSE, value |-> FeedDoc(target)]

\* cached.wrapper around fetch_feed / fetch_all_feeds, called at `time`:
\* the new cache, limiter and time, the result, and whether a request went
\* upstream; `written` is whether the cache file could be written
CachedFetch(func, target, style, written) ==
    LET key   == cache_key(func, target, style)
        hit   == cache_get(cache, key, time)
        files == cache_after_get(cache, key, time)
        sleep == SleepTime(limiter, Recent(limiter.requests, time), time)
        res   == fetch_body(target, client.upstream[target]) IN
    IF hit # None
    THEN [cache |-> files, limiter |-> limiter, time |-> time,
          raised |-> FALSE, value |-> hit, requested |-> FALSE,
          stored |-> FALSE, key |-> key]
    ELSE [cache |-> IF res.raised THEN files
                    ELSE cache_set(files, key, res.value, FeedTtl,
                                   time + sleep, written),
          limiter |-> wait_if_needed(limiter, time), time |-> time + sleep,
          raised |-> res.raised, value |-> res.value, requested |-> TRUE,
          stored |-> ~res.raised /\ written /\ res.value # None, key |-> key]

\* the `limit` arguments: unset (None), zero, or a positive integer
Unset == [set |-> FALSE, n |-> 0]
Limit(k) == [set |-> TRUE, n |-> k]

\* the record of one client call in the history
Logged(op, target, style, limit, c, value) ==
    [op |-> op, target |-> target, style |-> style, limit |-> limit,
     key |-> c.key, called_at |-> time, at |-> c.time, raised |-> c.raised,
     doc |-> c.value, value |-> value, requested |-> c.requested,
     stored |-> c.stored]

\* the fixed upstream responses of one behaviour: every URL answers with
\* its feed document ("ok"), or each URL fails in its own way: no answer
\* (connection error, timeout), a non-2xx status after the retries, a body
\* that is not JSON
Healthy == [t \in FeedIds \cup {"all"} |-> "ok"]

InitClient ==
    /\ PipelineIdle
    /\ AsideInit
    /\ time = 0
    /\ limiter = NewLimiter(MaxRate)
    /\ cache = NoFiles
    /\ \E u \in {Healthy,
                 [t \in FeedIds \cup {"all"} |-> IF t = "fA" THEN "network_error"
                                   ELSE IF t = "fB" THEN "http_error"
                                   ELSE "bad_body"]},
          w \in BOOLEAN :
          /\ w \/ u = Healthy
          /\ client = [upstream |-> u, writable |-> w, requests |-> 0,
                       log |-> << >>]

ClientElapse ==
    /\ client.log # << >>
    /\ \E d \in ({1000}) :
          /\ time + d <= MaxCacheTime
          /\ time' = time + d
    /\ UNCHANGED <<pipeline, limiter, cache, client, aside>>

\* SimpleCache.clear between two calls: every cache file is unlinked
ClientEvict ==
    /\ Len(client.log) < MaxClientCalls
    /\ \E key \in DOMAIN cache : cache[key].exists
    /\ cache' = [k \in DOMAIN cache |-> NoEntry]
    /\ client' = [client EXCEPT !.log = Append(@,
                     [op |-> "evict", target |-> "", style |-> "",
                      limit |-> Unset, key |-> << >>, called_at |-> time,
                      at |-> time, raised |-> FALSE, doc |-> None,
                      value |-> None, requested |-> FALSE, stored |-> FALSE])]
    /\ UNCHANGED <<pipeline, time, limiter, aside>>

\* the effect of a call through the cache on the components
Apply(c, entry) ==
    /\ cache' = c.cache
    /\ limiter' = c.limiter
    /\ time' = c.time
    /\ client' = [client EXCEPT !.log = Append(@, entry),
                                !.requests = @ + (IF c.requested THEN 1 ELSE 0)]

\* fetch_feed(feed_id), fetch_feed(feed_id, "json"),
\* fetch_feed(feed_id, format="json")
ClientFetchFeed ==
    /\ Len(client.log) < MaxClientCalls
    /\ \E f \in FeedIds, style \in ({"default", "keyword"}) :
          LET c == CachedFetch("fetch_feed", f, style, client.writable) IN
          Apply(c, Logged("fetch_feed", f, style, Unset, c, c.value))
    /\ UNCHANGED <<pipeline, aside>>

\* fetch_all_feeds(format="json")
ClientFetchAll ==
    /\ Len(client.log) < MaxClientCalls
    /\ LET c == CachedFetch("fetch_all_feeds", "all", "keyword",
                            client.writable) IN
       Apply(c, Logged("fetch_all_feeds", "all", "keyword", Unset, c, c.value))
    /\ UNCHANGED <<pipeline, aside>>

\* get_feed_entries after its fetch: [] without a document; `if limit:`
\* holds for an integer other than 0, and then items[:limit]
get_feed_entries(feed_data, limit) ==
    IF feed_data = None THEN << >>
    ELSE IF limit.set /\ limit.n # 0 THEN Prefix(feed_data.items, limit.n)
         ELSE feed_data.items

\* get_feed_entries(feed_id, limit): feed_data = self.fetch_feed(feed_id,
\* format="json"), then the limit
ClientGetEntries ==
    /\ Len(client.log) < MaxClientCalls
    /\ \E f \in FeedIds, limit \in ({Unset, Limit(0), Limit(MaxLimit)}) :
          LET c == CachedFetch("fetch_feed", f, "keyword", client.writable) IN
          Apply(c, Logged("get_feed_entries", f, "keyword", limit, c,
                             get_feed_entries(c.value, limit)))
    /\ UNCHANGED <<pipeline, aside>>

SpecClient ==
    InitClient /\ [][ClientElapse \/ ClientEvict \/ ClientFetchFeed
                     \/ ClientFetchAll \/ ClientGetEntries]_vars


\* ------------------------------------------------------------------------
\* Properties of the feed client and its cache
\* ------------------------------------------------------------------------
\* C16: once a fetch_feed call for a feed id and format has fetched and
\* returned a document, every further fetch_feed call for the same id and
\* format within 30 minutes returns that document without an upstream
\* request, however the arguments are passed (cache writes succeed and no
\* cache file is removed in between); the calls that run fetch_feed for
\* feed f with format "json" are fetch_feed itself and the fetch inside
\* get_feed_entries
C16_CachedWithinTtl ==
    LET FetchesFeed(e, f) ==
            e.op \in {"fetch_feed", "get_feed_entries"} /\ e.target = f IN
    client.writable =>
        \A f \in FeedIds : \A i, j \in 1..Len(client.log) :
            ( /\ i < j
              /\ FetchesFeed(client.log[i], f)
              /\ FetchesFeed(client.log[j], f)
              /\ client.log[i].requested
              /\ client.log[i].doc # None
              /\ client.log[j].called_at <= client.log[i].at + FeedTtl
              /\ \A k \in i..j : client.log[k].op # "evict" )
            => /\ ~client.log[j].requested
               /\ client.log[j].doc = client.log[i].doc


IsPrefix(a, b) ==
    /\ Len(a) <= Len(b)
    /\ \A i \in 1..Len(a) : a[i] = b[i]

\* C19: get_feed_entries(id, limit) returns an initial segment of the
\* feed's items in upstream order, of at most `limit` entries for every
\* integer limit >= 0, and all the items when the limit is unset
C19_AtMostLimitEntries ==
    \A i \in 1..Len(client.log) :
        LET e == client.log[i] IN
        e.op = "get_feed_entries" /\ e.doc # None =>
            /\ IsPrefix(e.value, e.doc.items)
            /\ e.limit.set => Len(e.value) <= e.limit.n
            /\ ~e.limit.set => e.value = e.doc.items


\* ------------------------------------------------------------------------
\* Order of the entry loop
\* ------------------------------------------------------------------------

\* C20: within one sync_account run the entries are processed, and their
\* rows inserted or updated, in exactly the upstream order: the run holds
\* an initial segment of the feed's items, the entry at position idx is
\* handled when the idx - 1 entries before it have their outcome, the row
\* written at position idx is the row of that entry, and the positions of
\* the written entries only grow
C20_UpstreamOrder ==
    \A p \in Procs :
        LET r == run[p] IN
        r.pc \in ({"entry", "persist", "metrics"}) \cup {"finalize"} =>
            /\ IsPrefix(r.entries, FeedItems(r.feed_id))
            /\ Len(r.outcome) = IF r.pc = "metrics" THEN r.idx ELSE r.idx - 1
            /\ \A a, b \in 1..Len(r.metrics_calls) :
                  a < b => r.metrics_calls[a] < r.metrics_calls[b]
            /\ \A k \in 1..Len(r.metrics_calls) :
                  /\ r.metrics_calls[k] <= Len(r.outcome)
                  /\ r.outcome[r.metrics_calls[k]] \in {"new", "updated"}
            /\ r.pc \in {"persist", "metrics"} =>
                  r.article_data.url = r.entries[r.idx].url
            /\ r.pc = "metrics" =>
                  /\ r.article_id \in 1..Len(articles)
                  /\ articles[r.article_id].url = r.entries[r.idx].url
                  /\ articles[r.article_id].title = r.entries[r.idx].title

\* a run has written two entries with different URLs, the first before the
\* second
C20_Witness ==
    \E p \in Procs :
        /\ run[p].pc = "finalize"
        /\ Len(run[p].entries) = 2
        /\ run[p].entries[1].url # run[p].entries[2].url
        /\ run[p].outcome = <<"new", "new">>
        /\ run[p].metrics_calls = <<1, 2>>


\* ------------------------------------------------------------------------
\* Accounts
\* ------------------------------------------------------------------------
\* C21: account rows are never removed: every step keeps each stored
\* account under its id and feed identifier, and a step that deactivates an
\* account changes nothing but its active flag: the articles and the sync
\* runs stay in place
C21_AccountsNeverRemoved ==
    [][ /\ Len(accounts') >= Len(accounts)
        /\ \A i \in 1..Len(accounts) :
              /\ accounts'[i].id = accounts[i].id
              /\ accounts'[i].feed_id = accounts[i].feed_id
        /\ (\E i \in 1..Len(accounts) :
               accounts[i].is_active /\ ~accounts'[i].is_active)
           => /\ Len(accounts') = Len(accounts)
              /\ \A i \in 1..Len(accounts) :
                    accounts'[i].name = accounts[i].name
              /\ articles' = articles
              /\ syncs' = syncs ]_vars

\* a deactivated account that still has its articles and its sync runs
C21_Witness ==
    \E i \in 1..Len(accounts) :
        /\ ~accounts[i].is_active
        /\ \E a \in 1..Len(articles) : articles[a].account_id = accounts[i].id
        /\ \E s \in 1..Len(syncs) : syncs[s].account_id = accounts[i].id


\* the store: the three tables
Store == <<accounts, articles, syncs>>

\* C22: an account is created only by a call whose seeding fetch returned a
\* document, for the feed identifier of that call; a call for an unseen
\* feed identifier whose fetch fails returns a failure result and leaves
\* the store as it was; no two accounts share a feed identifier
C22_AccountOnlyAfterFetch ==
    /\ [](\A i, j \in 1..Len(accounts) :
             i # j => accounts[i].feed_id # accounts[j].feed_id)
    /\ [][\A p \in Procs :
            /\ (Moved(p) /\ Len(accounts') > Len(accounts))
               => /\ run[p].pc \in {"seed", "add_seed"}
                  /\ run'[p].seed_fetch = "doc"
                  /\ Len(accounts') = Len(accounts) + 1
                  /\ accounts'[Len(accounts')].feed_id = run[p].feed_id
            /\ (Moved(p) /\ run'[p].seed_fetch = "none")
               => /\ Store' = Store
                  /\ run'[p].pc \in {"ret", "top_ret"}
                  /\ ~run'[p].result.success
                  /\ run'[p].result.error = "Failed to fetch feed data"
            /\ (Moved(p) /\ run[p].pc \in {"lookup", "add_lookup"})
               => Store' = Store ]_vars

\* sync_account for an unseen feed identifier came back with the failure of
\* its seeding fetch while another feed's account is stored
C22_Witness ==
    \E p \in Procs :
        /\ run[p].op = "sync" /\ run[p].pc = "ret"
        /\ run[p].seed_fetch = "none"
        /\ ~run[p].result.success
        /\ Len(accounts) = 1
        /\ accounts[1].feed_id # run[p].feed_id
        /\ articles # << >>


\* ------------------------------------------------------------------------
\* The author of a stored article: process_article followed by the fallback
\* of sync_account, applied to one feed entry of an account
\* ------------------------------------------------------------------------
\* the strings met in author fields: empty, whitespace, the placeholder in
\* two spellings, a name
AuthorStrings == {"", " ", "Unknown", "unknown", "bob"}

RECURSIVE ListsUpTo(_, _)
ListsUpTo(S, n) ==
    IF n = 0 THEN {<< >>}
    ELSE LET shorter == ListsUpTo(S, n - 1) IN
         shorter \cup {Append(l, x) : l \in shorter, x \in S}

InitAuthor ==
    /\ PipelineIdle
    /\ time = 0
    /\ limiter = NewLimiter(1)
    /\ cache = NoFiles
    /\ client = [upstream |-> << >>, writable |-> TRUE, requests |-> 0,
                 log |-> << >>]
    /\ metrics_fetcher = NewMetricsFetcher(TRUE)
    /\ content_fetcher = NewContentFetcher
    /\ \E e \in [author : {Absent, Nameless}
                            \cup {Str(s) : s \in AuthorStrings}
                            \cup {Named(s) : s \in AuthorStrings},
                   authors : ListsUpTo({Nameless, Named(""), Named("bob"),
                                        Str(" "), Str("bob")}, MaxAuthors),
                   author_name : {Absent} \cup {Str(s) : s \in AuthorStrings}],
          n \in {"Alpha", ""} :
          probe = [kind |-> "author", pc |-> "entry", entry |-> e,
                   account_name |-> n, author |-> ""]

\* article_data = content_processor.process_article(entry)
AuthorProcess ==
    /\ probe.kind = "author" /\ probe.pc = "entry"
    /\ probe' = [probe EXCEPT !.pc = "processed",
                              !.author = resolve_author(probe.entry)]
    /\ UNCHANGED (<<pipeline, time, limiter, cache, client, metrics_fetcher, content_fetcher>>)

\* lines 94-96 and the INSERT: the author as it is stored
AuthorStore ==
    /\ probe.kind = "author" /\ probe.pc = "processed"
    /\ probe' = [probe EXCEPT !.pc = "stored",
                              !.author = AuthorFallback(probe, probe.account_name).author]
    /\ UNCHANGED (<<pipeline, time, limiter, cache, client, metrics_fetcher, content_fetcher>>)

SpecAuthor == InitAuthor /\ [][AuthorProcess \/ AuthorStore]_vars

\* C23: for an account with a non-empty display name the stored author is
\* never blank, and an entry whose author is missing, empty,
\* whitespace-only or an "Unknown" placeholder (also a list whose members
\* have no name) is stored with the account's display name
C23_AuthorNeverBlank ==
    LET \* str.strip() leaves nothing
        IsBlank(s) == s \in {"", " "}
        e == probe.entry
        \* the entry names no author
        NamesNoAuthor ==
            /\ e.author_name.kind = "absent"
            /\ IF e.authors # << >>
               THEN \A i \in 1..Len(e.authors) : e.authors[i] = Nameless
               ELSE \/ e.author.kind \in {"absent", "dict_noname"}
                    \/ e.author.kind = "str"
                       /\ (IsBlank(e.author.s) \/ Lower(e.author.s) = "unknown")
    IN
    (probe.kind = "author" /\ probe.pc = "stored" /\ probe.account_name # "")
    => /\ ~IsBlank(probe.author)
       /\ NamesNoAuthor => probe.author = probe.account_name


\* ------------------------------------------------------------------------
\* Metrics refresh: web_app.update_article_metrics and the update-metrics
\* command of cli.py, run on the store that a finished synchronisation of
\* feed fB left behind
\* ------------------------------------------------------------------------

\* the articles of feed fB as sync_account stores them at time `now`
RECURSIVE SyncedArticles(_, _, _)
SyncedArticles(items, evs, now) ==
    IF items = << >> THEN << >>
    ELSE LET n    == Len(items)
             rest == SyncedArticles(SubSeq(items, 1, n - 1),
                                    SubSeq(evs, 1, n - 1), now)
             data == AuthorFallback(process_article(items[n]), FeedTitle("fB"))
             made == create_article(rest, 1, data, now) IN
         IF evs[n] = "fails" THEN made
         ELSE apply_metrics(made, n,
                            fetch_article_metrics(data.url, evs[n] = "real"), now)

\* update_article(id, read_count=..., ..., metrics_updated_at=now) of the
\* update-metrics command: the counters are committed on their own
refresh_counters(arts, id, m, now) ==
    [arts EXCEPT ![id] = [@ EXCEPT !.counters = m.counters,
                                   !.metrics_updated_at = now,
                                   !.updated_at = now]]

\* art.calculate_scores(); update_article(art.id, engagement_rate=..., ...):
\* the scores follow in a second transaction
refresh_scores(arts, id, now) ==
    [arts EXCEPT ![id] = [@ EXCEPT !.scores = calculate_scores(arts[id].counters),
                                   !.updated_at = now]]

InitRefresh ==
    /\ \E evs \in [1..2 -> ({"real", "simulated", "fails"})] :
          /\ articles = SyncedArticles(FeedItems("fB"), evs, 2)
          /\ faults = Cardinality({i \in 1..2 : evs[i] # "real"})
    /\ accounts = create_account(<< >>, "fB", FeedTitle("fB"))
    /\ syncs = finalize_success(create_sync_history(<< >>, 1, "manual"), 1,
                                [ZeroStats EXCEPT !.fetched = 2, !.new = 2], 2)
    /\ clock = 2
    /\ calls = 1
    /\ edits = 0
    /\ run = [p \in Procs |-> IdleRun]
    /\ last = [f \in FeedIds |->
                 IF f = "fB"
                 THEN [done |-> TRUE, full_sync |-> FALSE, success |-> TRUE,
                       entries |-> FeedItems("fB"), failed |-> 0]
                 ELSE NoPrior]
    /\ time = 0
    /\ limiter = NewLimiter(1)
    /\ cache = NoFiles
    /\ client = [upstream |-> << >>, writable |-> TRUE, requests |-> 0,
                 log |-> << >>]
    /\ metrics_fetcher = NewMetricsFetcher(TRUE)
    /\ content_fetcher = NewContentFetcher
    /\ probe = [kind |-> "refresh", pc |-> "idle", todo |-> << >>, id |-> 0]

\* update_article_metrics: metrics, counters, scores and the commit in one
\* session; a rejected commit rolls everything back
WebRefresh ==
    /\ probe.kind = "refresh" /\ probe.pc \in {"idle", "done", "raised"}
    /\ Spent < MaxEvents
    /\ \E id \in 1..Len(articles), ev \in {"real", "simulated", "dbfail"} :
          /\ ev = "real" \/ Spent + 1 < MaxEvents
          /\ faults' = faults + Cost(ev # "real")
          /\ articles' = IF ev = "dbfail" THEN articles
                         ELSE apply_metrics(articles, id,
                                 fetch_article_metrics(articles[id].url, ev = "real"),
                                 clock)
    /\ edits' = edits + 1
    /\ probe' = [probe EXCEPT !.pc = "idle"]
    /\ UNCHANGED <<clock, calls>>
    /\ UNCHANGED <<accounts, syncs, run, last, time, limiter, cache, client,
                   metrics_fetcher, content_fetcher>>

\* cli update-metrics: articles = db.get_recent_articles(limit=limit)
CliStart ==
    /\ probe.kind = "refresh" /\ probe.pc \in {"idle", "done", "raised"}
    /\ Spent < MaxEvents
    /\ edits' = edits + 1
    /\ probe' = [probe EXCEPT !.pc = IF articles = << >> THEN "done" ELSE "counters",
                              !.todo = [i \in 1..Len(articles) |->
                                           Len(articles) + 1 - i],
                              !.id = 0]
    /\ UNCHANGED <<articles, clock, calls, faults>>
    /\ UNCHANGED <<accounts, syncs, run, last, time, limiter, cache, client,
                   metrics_fetcher, content_fetcher>>

\* metrics = fetch_article_metrics(article.url); db.update_article(counters)
CliCounters ==
    /\ probe.kind = "refresh" /\ probe.pc = "counters"
    /\ \E ev \in (IF Spent < MaxEvents THEN {"real", "simulated", "dbfail"} ELSE {"real"}) :
          /\ faults' = faults + Cost(ev # "real")
          /\ IF ev = "dbfail"
             THEN /\ probe' = [probe EXCEPT !.pc = "raised"]
                  /\ UNCHANGED articles
             ELSE /\ articles' = refresh_counters(articles, Head(probe.todo),
                                    fetch_article_metrics(articles[Head(probe.todo)].url,
                                                          ev = "real"), clock)
                  /\ probe' = [probe EXCEPT !.pc = "scores", !.id = Head(probe.todo)]
    /\ UNCHANGED <<clock, calls, edits>>
    /\ UNCHANGED <<accounts, syncs, run, last, time, limiter, cache, client,
                   metrics_fetcher, content_fetcher>>

\* art = db.get_article_by_url(article.url); art.calculate_scores();
\* db.update_article(art.id, scores); a rejected call ends the command
CliScores ==
    /\ probe.kind = "refresh" /\ probe.pc = "scores"
    /\ \E dbfail \in Faulty :
          /\ faults' = faults + Cost(dbfail)
          /\ IF dbfail
             THEN /\ probe' = [probe EXCEPT !.pc = "raised"]
                  /\ UNCHANGED articles
             ELSE /\ articles' = refresh_scores(articles,
                                    get_article_by_url(articles, articles[probe.id].url),
                                    clock)
                  /\ probe' = [probe EXCEPT
                                  !.todo = Tail(@),
                                  !.pc = IF Len(probe.todo) = 1 THEN "done"
                                         ELSE "counters"]
    /\ UNCHANGED <<clock, calls, edits>>
    /\ UNCHANGED <<accounts, syncs, run, last, time, limiter, cache, client,
                   metrics_fetcher, content_fetcher>>

SpecRefresh ==
    InitRefresh /\ [][WebRefresh \/ CliStart \/ CliCounters \/ CliScores]_vars

\* C24: after every completed sync_account run and whenever no metrics
\* refresh is under way, the four scores of each stored article equal the
\* scoring formulas applied to its stored counters: no operation leaves
\* changed counters with stale scores
C24_ScoresFollowCounters ==
    (probe.kind = "refresh" /\ probe.pc \in {"idle", "done", "raised"})
    => (\A i \in 1..Len(articles) : articles[i].scores = calculate_scores(articles[i].counters))

\* ------------------------------------------------------------------------
\* Article.calculate_scores on its own: the six counters are drawn from
\* NULL and 0..MaxCount, or are the counters of the documented example
\* ------------------------------------------------------------------------
MaxCount == 2

InitScores ==
    /\ PipelineIdle
    /\ time = 0
    /\ limiter = NewLimiter(1)
    /\ cache = NoFiles
    /\ client = [upstream |-> << >>, writable |-> TRUE, requests |-> 0,
                 log |-> << >>]
    /\ metrics_fetcher = NewMetricsFetcher(TRUE)
    /\ content_fetcher = NewContentFetcher
    /\ \E m \in {Counters(r, l, w, c, s, f) :
                    r \in {NullCount} \cup (0..MaxCount),
                    l \in {NullCount, 0, MaxCount}, w \in {NullCount, 1},
                    c \in {NullCount, 1}, s \in {NullCount, 1},
                    f \in {NullCount, MaxCount}} \cup {RealCounters} :
          probe = [kind |-> "scores", pc |-> "start", counters |-> m,
                   scores |-> ZeroScores]

\* article.calculate_scores()
ScoresCalculate ==
    /\ probe.kind = "scores" /\ probe.pc = "start"
    /\ probe' = [probe EXCEPT !.pc = "done",
                              !.scores = calculate_scores(probe.counters)]
    /\ UNCHANGED (<<pipeline, time, limiter, cache, client, metrics_fetcher, content_fetcher>>)

SpecScores == InitScores /\ [][ScoresCalculate]_vars

\* C25: for every tuple of six counters, each a non-negative integer or
\* NULL, calculate_scores completes and yields the four documented ratios
\* with read = max(1, read_count) and NULL counted as 0; the documented
\* example yields 70, 50, 25 and 22
C25_ScoreFormulas ==
    (probe.kind = "scores" /\ probe.pc = "done") =>
        LET m    == probe.counters
            read == IF OrZero(m.read_count) > 1 THEN OrZero(m.read_count) ELSE 1
            l    == OrZero(m.like_count)
            w    == OrZero(m.wow_count)
            c    == OrZero(m.comment_count)
            s    == OrZero(m.share_count)
            f    == OrZero(m.favorite_count)
            q    == probe.scores
            IsRatio(x, sum, rd, scale) ==
                x[2] > 0 /\ x[1] * rd = sum * scale * x[2] IN
        /\ IsRatio(q.engagement_rate, l + w, read, 1000)
        /\ IsRatio(q.virality_index, s * 2 + w, read, 1000)
        /\ IsRatio(q.content_value_index, f * 2 + c, read, 1000)
        /\ IsRatio(q.heat_score, l + 2 * w + 3 * c + 4 * f + 5 * s, read, 100)
        /\ m = Counters(1000, 50, 20, 5, 15, 10) =>
              /\ q.engagement_rate[1] = 70 * q.engagement_rate[2]
              /\ q.virality_index[1] = 50 * q.virality_index[2]
              /\ q.content_value_index[1] = 25 * q.content_value_index[2]
              /\ q.heat_score[1] = 22 * q.heat_score[2]

C25_Witness ==
    /\ probe.kind = "scores" /\ probe.pc = "done"
    /\ probe.counters.read_count = 0
    /\ probe.counters.like_count = NullCount
    /\ probe.counters.favorite_count = MaxCount
    /\ probe.scores.content_value_index[1] > 0

\* ------------------------------------------------------------------------
\* MetricsFetcher on its own: instances with and without an API key, the
\* provider's answers, and the calls made
\* ------------------------------------------------------------------------
MaxMetricCalls == 3
MaxMetricTime == 2

\* the metric fields of a provider answer; NullCount is an absent key
Payload(read_num, like_num, zan, look_num, share_num, fav_num, comment_num) ==
    [read_num |-> read_num, like_num |-> like_num, zan |-> zan,
     look_num |-> look_num, share_num |-> share_num, fav_num |-> fav_num,
     comment_num |-> comment_num]

FullPayload  == Payload(1000, 50, NullCount, 20, 15, 10, 5)
NoPayload    == Payload(NullCount, NullCount, NullCount, NullCount, NullCount,
                        NullCount, NullCount)

\* what requests.post meets: a transport exception, or a response with a
\* status, a body that is a JSON object, another JSON value or no JSON at
\* all, the provider's code and the metric fields
Answer(transport, status, body, code, data) ==
    [transport |-> transport, status |-> status, body |-> body,
     code |-> code, data |-> data]

Answers ==
    {Answer("raises", 0, "none", 0, NoPayload),
     Answer("ok", 500, "dict", 0, FullPayload),
     Answer("ok", 200, "invalid", 0, NoPayload),
     Answer("ok", 200, "list", 0, NoPayload),
     Answer("ok", 200, "dict", -1, FullPayload),
     Answer("ok", 200, "dict", 0, NoPayload),
     Answer("ok", 200, "dict", 0,
            Payload(NullCount, NullCount, NullCount, NullCount, 15, NullCount,
                    NullCount)),
     Answer("ok", 200, "dict", 1, Payload(0, 0, NullCount, 20, 15, 10, 5)),
     Answer("ok", 200, "dict", 1,
            Payload(NullCount, NullCount, 7, NullCount, NullCount, NullCount,
                    NullCount)),
     Answer("ok", 200, "dict", 0, FullPayload)}

\* truth value of res_data.get(k)
Truthy(x) == x # NullCount /\ x # 0

\* the metrics dictionary built from a provider answer (lines 83-91)
real_metrics(d) ==
    [counters |->
        Counters(IF Truthy(d.read_num) THEN d.read_num ELSE 0,
                 IF d.like_num # NullCount THEN d.like_num
                 ELSE IF d.zan # NullCount THEN d.zan ELSE 0,
                 IF Truthy(d.look_num) THEN d.look_num ELSE 0,
                 IF Truthy(d.comment_num) THEN d.comment_num ELSE 0,
                 IF d.share_num # NullCount THEN d.share_num ELSE 0,
                 IF Truthy(d.fav_num) THEN d.fav_num ELSE 0),
     is_simulated |-> FALSE]

\* variant: the generator draws from state shared between calls
generate_simulated_metrics_Stateful(self, url) ==
    [counters |-> [SimulatedCounters(url) EXCEPT
                      !.read_count = @ + self.requests],
     is_simulated |-> TRUE]

\* _generate_simulated_metrics: random.Random(seed) with the seed taken from
\* the MD5 of the URL; nothing of `self` is read
generate_simulated_metrics(self, url) ==
    [counters |-> SimulatedCounters(url), is_simulated |-> TRUE]

\* variant: the request is made whether or not a key is configured
metrics_enabled_Always(self) == TRUE

\* line 51: self.enabled
metrics_enabled(self) == self.enabled

\* the body of the `try` (lines 56-98): it returns a value or raises;
\* response.json() raises on a body that is no JSON, data.get raises on a
\* JSON value that is no object
metrics_try(self, url, a) ==
    LET simulated == generate_simulated_metrics(self, url) IN
    IF a.transport = "raises" THEN [raised |-> TRUE, result |-> simulated]
    ELSE IF a.status # 200 THEN [raised |-> FALSE, result |-> simulated]
    ELSE IF a.body # "dict" THEN [raised |-> TRUE, result |-> simulated]
    ELSE IF a.code = 1 \/ a.code = 0
         THEN IF ~(Truthy(a.data.read_num) \/ Truthy(a.data.like_num)
                   \/ Truthy(a.data.zan))
              THEN [raised |-> FALSE, result |-> simulated]
              ELSE [raised |-> FALSE, result |-> real_metrics(a.data)]
         ELSE [raised |-> FALSE, result |-> simulated]

\* variant: the exception leaves fetch_article_metrics
metrics_except_Reraised(t, simulated) == t

\* `except Exception` (lines 100-102): the simulated metrics are returned
metrics_except(t, simulated) ==
    IF t.raised THEN [raised |-> FALSE, result |-> simulated] ELSE t

\* one call of fetch_article_metrics on instance `self`, the provider
\* answering `a`: the returned value, whether the call raised, and the
\* number of requests issued
metrics_call(self, url, a) ==
    LET simulated == generate_simulated_metrics(self, url) IN
    IF ~metrics_enabled(self)
    THEN [result |-> simulated, raised |-> FALSE, posts |-> 0]
    ELSE LET t == metrics_except(metrics_try(self, url, a), simulated) IN
         [result |-> t.result, raised |-> t.raised, posts |-> 1]

InitMetrics ==
    /\ PipelineIdle
    /\ time = 0
    /\ limiter = NewLimiter(1)
    /\ cache = NoFiles
    /\ client = [upstream |-> << >>, writable |-> TRUE, requests |-> 0,
                 log |-> << >>]
    /\ \E key \in BOOLEAN : metrics_fetcher = NewMetricsFetcher(key)
    /\ content_fetcher = NewContentFetcher
    /\ probe = [kind |-> "metrics",
                last |-> [url |-> "",
                          answer |-> Answer("raises", 0, "none", 0, NoPayload),
                          enabled |-> FALSE,
                          result |-> [counters |-> ZeroCounters,
                                      is_simulated |-> FALSE],
                          raised |-> FALSE, posts |-> 0, n |-> 0],
                seen |-> [u \in {"u1", "u2"} |-> None]]

\* MetricsFetcher(api_key): another instance takes the calls that follow
MetricsConstruct ==
    /\ probe.kind = "metrics"
    /\ \E key \in BOOLEAN :
          /\ key # metrics_fetcher.enabled
          /\ metrics_fetcher' = [metrics_fetcher EXCEPT !.enabled = key]
    /\ UNCHANGED <<time, probe>>
    /\ UNCHANGED (<<pipeline, limiter, cache, client, content_fetcher>>)

MetricsElapse ==
    /\ probe.kind = "metrics"
    /\ time < MaxMetricTime
    /\ time' = time + 1
    /\ UNCHANGED <<metrics_fetcher, probe>>
    /\ UNCHANGED (<<pipeline, limiter, cache, client, content_fetcher>>)

\* fetch_article_metrics(url)
MetricsFetch ==
    /\ probe.kind = "metrics"
    /\ probe.last.n < MaxMetricCalls
    /\ \E url \in ({"u1", "u2"}), a \in Answers :
          LET c == metrics_call(metrics_fetcher, url, a) IN
          /\ metrics_fetcher' =
                [metrics_fetcher EXCEPT !.requests = @ + c.posts]
          /\ probe' =
                [probe EXCEPT
                    !.last = [url |-> url, answer |-> a,
                              enabled |-> metrics_fetcher.enabled,
                              result |-> c.result, raised |-> c.raised,
                              posts |-> c.posts, n |-> probe.last.n + 1],
                    !.seen[url] =
                        IF c.result.is_simulated /\ @ = None
                        THEN c.result.counters ELSE @]
    /\ UNCHANGED time
    /\ UNCHANGED (<<pipeline, limiter, cache, client, content_fetcher>>)

SpecMetrics ==
    InitMetrics /\ [][MetricsConstruct \/ MetricsElapse \/ MetricsFetch]_vars

MetricsAnswered == probe.kind = "metrics" /\ probe.last.n > 0

C27_FallsBackToSimulated ==
    LET Recognised(a) ==
            /\ a.transport = "ok" /\ a.status = 200 /\ a.body = "dict"
            /\ a.code \in {0, 1}
            /\ a.data.read_num # NullCount \/ a.data.like_num # NullCount
               \/ a.data.zan # NullCount IN
    (MetricsAnswered /\ probe.last.enabled) =>
        /\ ~probe.last.raised
        /\ ~Recognised(probe.last.answer) =>
              /\ probe.last.result.is_simulated
              /\ probe.last.result.counters = SimulatedCounters(probe.last.url)
        /\ ~probe.last.result.is_simulated => Recognised(probe.last.answer)

C27_Witness ==
    /\ MetricsAnswered /\ probe.last.enabled
    /\ probe.last.answer.transport = "ok" /\ probe.last.answer.status = 200
    /\ probe.last.answer.body = "dict" /\ probe.last.answer.code = 0
    /\ probe.last.answer.data.share_num = 15
    /\ probe.last.answer.data.read_num = NullCount
    /\ probe.last.result.is_simulated
    /\ probe.last.posts = 1

\* C28: with no API key every call returns the simulated metrics and
\* issues no request
C28_NoKeyNoRequest ==
    /\ [](MetricsAnswered /\ ~probe.last.enabled =>
            /\ probe.last.result.is_simulated
            /\ probe.last.result.counters = SimulatedCounters(probe.last.url))
    /\ [][~metrics_fetcher.enabled =>
            metrics_fetcher'.requests = metrics_fetcher.requests]_vars

C28_Witness ==
    /\ MetricsAnswered /\ ~probe.last.enabled
    /\ probe.last.answer = Answer("ok", 200, "dict", 0, FullPayload)
    /\ probe.last.result.is_simulated
    /\ metrics_fetcher.requests = 0

\* ------------------------------------------------------------------------
\* ContentFetcher on its own: fetch_article_content called with any URLs
\* while time passes and the feed client makes its own requests through
\* the rate limiter; the pipeline is idle
\* ------------------------------------------------------------------------
MaxContentCalls == 3
MaxContentTime == 14

\* self.request_delay
request_delay == 2

\* @cached(ttl=86400) on fetch_article_content
ContentTtl == 86400

EmptyContent ==
    [content_text |-> "", content_html |-> "", images |-> << >>,
     videos |-> << >>]

\* variant: a page without container yields None
parse_wechat_html_NoneOnMissing(page) ==
    IF page = "no_container" THEN None
    ELSE [content_text |-> "text", content_html |-> "<div>", images |-> <<"img">>,
          videos |-> << >>]

\* _parse_wechat_html: the js_content div, else the rich_media_content div,
\* else the empty result
parse_wechat_html(page) ==
    IF page = "no_container" THEN EmptyContent
    ELSE [content_text |-> "text", content_html |-> "<div>", images |-> <<"img">>,
          videos |-> << >>]

\* the `try` of fetch_article_content with both handlers
content_try(page) ==
    IF page \in {"network_error", "http_error"}
    THEN [raised |-> FALSE, value |-> None]
    ELSE IF page = "parse_error" THEN [raised |-> FALSE, value |-> None]
    ELSE [raised |-> FALSE, value |-> parse_wechat_html(page)]

\* variant: the fetcher does not sleep
content_wait_if_needed_NoSleep(cursor, now) == now

\* _wait_if_needed: the time at which it returns, time.sleep lasting what
\* was asked
content_wait_if_needed(cursor, now) ==
    IF now - cursor < request_delay
    THEN now + (request_delay - (now - cursor))
    ELSE now

InitContent ==
    /\ PipelineIdle
    /\ time = (10)
    /\ limiter = NewLimiter(1)
    /\ cache = NoFiles
    /\ client = [upstream |-> << >>, writable |-> TRUE, requests |-> 0,
                 log |-> << >>]
    /\ metrics_fetcher = NewMetricsFetcher(TRUE)
    /\ content_fetcher = NewContentFetcher
    /\ probe = [kind |-> "content", n |-> 0, url |-> "", page |-> "",
                result |-> None, raised |-> FALSE, requested |-> FALSE]

ContentElapse ==
    /\ probe.kind = "content"
    /\ time < MaxContentTime
    /\ time' = time + 1
    /\ UNCHANGED <<limiter, cache, content_fetcher, probe>>
    /\ UNCHANGED (<<pipeline, client, metrics_fetcher>>)

\* a request of the feed client: rate_limiter.wait_if_needed()
ContentFeedRequest ==
    /\ probe.kind = "content"
    /\ Len(limiter.released) < MaxReleases
    /\ LET sleep == SleepTime(limiter, Recent(limiter.requests, time), time) IN
       /\ time + sleep <= MaxContentTime
       /\ time' = time + sleep
    /\ limiter' = wait_if_needed(limiter, time)
    /\ UNCHANGED <<cache, content_fetcher, probe>>
    /\ UNCHANGED (<<pipeline, client, metrics_fetcher>>)

\* content_fetcher.fetch_article_content(url) through the cached wrapper
ContentFetch ==
    /\ probe.kind = "content"
    /\ probe.n < MaxContentCalls
    /\ \E url \in {"ftp://a", "http://a", "http://b"},
          page \in {"network_error", "http_error", "parse_error",
                    "no_container", "container"} :
          LET key == cache_key("fetch_article_content", url, "default")
              hit == cache_get(cache, key, time)
              t   == content_wait_if_needed(content_fetcher.last_request_time,
                                            time)
              res == content_try(page) IN
          IF hit # None
          THEN /\ probe' = [probe EXCEPT !.n = @ + 1, !.url = url,
                                         !.page = "", !.result = hit,
                                         !.raised = FALSE, !.requested = FALSE]
               /\ cache' = cache_after_get(cache, key, time)
               /\ UNCHANGED <<time, content_fetcher>>
          ELSE IF url \notin {"http://a", "http://b"}  \* not startswith('http')
          THEN /\ probe' = [probe EXCEPT !.n = @ + 1, !.url = url,
                                         !.page = "", !.result = None,
                                         !.raised = FALSE, !.requested = FALSE]
               /\ cache' = cache_after_get(cache, key, time)
               /\ UNCHANGED <<time, content_fetcher>>
          ELSE /\ t <= MaxContentTime
               /\ time' = t
               /\ content_fetcher' =
                     [content_fetcher EXCEPT
                         !.last_request_time = t,
                         !.starts =
                            IF Len(@) < 2
                            THEN Append(@, [at |-> t, url |-> url])
                            ELSE <<@[2], [at |-> t, url |-> url]>>]
               /\ probe' = [probe EXCEPT !.n = @ + 1, !.url = url,
                                         !.page = page, !.result = res.value,
                                         !.raised = res.raised,
                                         !.requested = TRUE]
               /\ cache' = IF res.raised
                           THEN cache_after_get(cache, key, time)
                           ELSE [k \in DOMAIN cache \cup {key} |->
                                   IF k = key
                                   THEN [exists |-> TRUE, value |-> res.value,
                                         expires_at |-> t + ContentTtl]
                                   ELSE cache[k]]
    /\ UNCHANGED limiter
    /\ UNCHANGED (<<pipeline, client, metrics_fetcher>>)

SpecContent ==
    InitContent /\ [][ContentElapse \/ ContentFeedRequest \/ ContentFetch]_vars

\* C29: any two successive page requests of the Content Fetcher, whatever
\* their URLs, start at least request_delay seconds apart; the delay has
\* one cursor for all URLs and neither reads nor moves the feed Rate Limiter
C29_RequestsTwoSecondsApart ==
    /\ [](Len(content_fetcher.starts) = 2 =>
            content_fetcher.starts[2].at - content_fetcher.starts[1].at
               >= request_delay)
    /\ [][/\ content_fetcher' # content_fetcher => limiter' = limiter
          /\ limiter' # limiter => content_fetcher' = content_fetcher]_vars

C29_Witness ==
    /\ Len(content_fetcher.starts) = 2
    /\ content_fetcher.starts[1].url # content_fetcher.starts[2].url
    /\ content_fetcher.starts[2].at - content_fetcher.starts[1].at = request_delay
    /\ Len(limiter.released) = limiter.max_requests
    /\ limiter.released[1] <= content_fetcher.starts[1].at

\* C30: for a page that was fetched successfully and has no recognisable
\* content container, fetch_article_content neither raises nor returns
\* None: it returns a result whose text, html, images and videos are empty
C30_EmptyResultWithoutContainer ==
    (probe.kind = "content" /\ probe.requested /\ probe.page = "no_container")
    => /\ ~probe.raised
       /\ probe.result # None
       /\ probe.result.content_text = "" /\ probe.result.content_html = ""
       /\ probe.result.images = << >> /\ probe.result.videos = << >>

C30_Witness ==
    /\ probe.kind = "content" /\ probe.requested
    /\ probe.page = "no_container"
    /\ probe.result = EmptyContent
    /\ probe.n > 1


\* ------------------------------------------------------------------------
\* content_fetcher.ContentFetcher._parse_wechat_html on a content container
\* and the cover image chosen by content_processor.process_article
\* ------------------------------------------------------------------------
MaxElems == 2

\* an <img>, <video> or <iframe> below the content container, with the
\* attributes the code reads ("" for a missing attribute) and the src of
\* the <source> children of a <video>
Elem(tag, src, data_src, width, height, sources) ==
    [tag |-> tag, src |-> src, data_src |-> data_src, width |-> width,
     height |-> height, sources |-> sources]

\* _extract_text, lines 218-231: every iframe (script, style) below the
\* element is decomposed, i.e. removed from the tree the later steps read
extract_text(div) == SelectSeq(div, LAMBDA e : e.tag # "iframe")

\* _extract_images, lines 233-271: data-src or src; both size tests sit in
\* one try block, int() raises ValueError for a non-numeric string and the
\* handler passes
extract_images(div) ==
    LET int == ("10" :> 10) @@ ("30" :> 30) @@ ("480" :> 480)
        url(e) == IF e.data_src # "" THEN e.data_src ELSE e.src
        skipped(e) ==
            IF e.width # "" /\ e.width \notin DOMAIN int THEN FALSE
            ELSE IF e.width # "" /\ int[e.width] < 50 THEN TRUE
            ELSE IF e.height # "" /\ e.height \notin DOMAIN int THEN FALSE
            ELSE e.height # "" /\ int[e.height] < 50
        kept == SelectSeq(div, LAMBDA e : /\ e.tag = "img"
                                          /\ url(e) # ""
                                          /\ ~skipped(e)) IN
    [i \in 1..Len(kept) |->
        [url |-> url(kept[i]), width |-> kept[i].width,
         height |-> kept[i].height]]

\* _extract_videos, lines 273-310: a video's src, else the src of its first
\* source child; then the iframes whose src contains "video" or "v.qq.com"
extract_videos(div) ==
    LET url(e) == IF e.src # "" THEN e.src
                  ELSE IF e.sources # << >> THEN e.sources[1] ELSE ""
        vids == SelectSeq(div, LAMBDA e : e.tag = "video" /\ url(e) # "")
        frames == SelectSeq(div, LAMBDA e :
                      e.tag = "iframe" /\ e.src \in {"https://v.qq.com/x"}) IN
    [i \in 1..Len(vids) |-> [url |-> url(vids[i]), type |-> "video"]]
    \o [i \in 1..Len(frames) |-> [url |-> frames[i].src, type |-> "iframe"]]

\* _parse_wechat_html, lines 117-170, for a page with a content container:
\* the text, the image list, the rewrite of every img (src from data-src),
\* the video list, the rewrite of every iframe, and the container's HTML
parse_content_div(div, text) ==
    LET tree == extract_text(div)
        shown(e) == IF e.data_src # "" \/ e.src # ""
                    THEN [e EXCEPT !.src = IF e.data_src # "" THEN e.data_src
                                           ELSE e.src,
                                   !.data_src = ""]
                    ELSE e
        imgs == [i \in 1..Len(tree) |->
                    IF tree[i].tag = "img" THEN shown(tree[i]) ELSE tree[i]]
        html == [i \in 1..Len(imgs) |->
                    IF imgs[i].tag = "iframe" THEN shown(imgs[i]) ELSE imgs[i]] IN
    [content_text |-> text, content_html |-> html,
     images |-> extract_images(tree), videos |-> extract_videos(imgs)]

\* content_processor lines 64-123: the fetched page when the fetch gave
\* one, the entry's own content when the fetched text is empty, and the
\* cover: without fetched images the first http <img> of the content
\* (_extract_images, lines 201-231), otherwise the entry's "image" field
\* when truthy, otherwise the first fetched image
cover_image(entry_image, entry_html, fetched) ==
    LET content_text == IF fetched = None THEN "" ELSE fetched.content_text
        images_list  == IF fetched = None THEN << >> ELSE fetched.images
        content_html == IF content_text = "" THEN entry_html
                        ELSE fetched.content_html
        srcs == SelectSeq(
                   [i \in 1..Len(content_html) |->
                       IF content_html[i].tag # "img" THEN ""
                       ELSE IF content_html[i].src # "" THEN content_html[i].src
                       ELSE content_html[i].data_src],
                   LAMBDA s : s \in {"http://i1", "http://c1"}) IN
    IF images_list = << >>
    THEN (IF srcs = << >> THEN Absent ELSE Str(srcs[1]))
    ELSE IF entry_image \notin {Absent, Str("")} THEN entry_image
    ELSE Str(images_list[1].url)

InitParse ==
    /\ PipelineIdle
    /\ time = 0
    /\ limiter = NewLimiter(1)
    /\ cache = NoFiles
    /\ client = [upstream |-> << >>, writable |-> TRUE, requests |-> 0,
                 log |-> << >>]
    /\ metrics_fetcher = NewMetricsFetcher(TRUE)
    /\ content_fetcher = NewContentFetcher
    /\ LET Elements ==
              {Elem("img", "", u, w, h, << >>) :
                  u \in {"http://i1"}, w \in {"", "30", "auto"},
                  h \in {"", "10", "480"}}
              \cup {Elem("img", "", "", "", "", << >>),
                    Elem("img", "data:i2", "", "", "", << >>),
                    Elem("video", "http://v1", "", "", "", << >>),
                    Elem("video", "", "", "", "", <<"http://v2">>),
                    Elem("video", "", "", "", "", << >>),
                    Elem("iframe", "https://v.qq.com/x", "", "", "", << >>),
                    Elem("iframe", "", "https://v.qq.com/x", "", "", << >>),
                    Elem("iframe", "https://mp/s", "", "", "", << >>)} IN
       \E n \in 0..MaxElems : \E div \in [1..n -> Elements] :
       \E text \in {"", "text"},
          entry_image \in {Absent, Str("http://e1")},
          entry_html \in {<< >>,
                          <<Elem("img", "http://c1", "", "", "", << >>)>>} :
          probe = [kind |-> "parse", pc |-> "page", div |-> div,
                   text |-> text, entry_image |-> entry_image,
                   entry_html |-> entry_html, fetched |-> None,
                   cover |-> Absent]

\* fetch_article_content(url) inside process_article: the parsed page, or
\* nothing when the request or the parsing failed
ParseFetch ==
    /\ probe.kind = "parse"
    /\ probe.pc = "page"
    /\ \E ok \in BOOLEAN :
          probe' = [probe EXCEPT
                       !.pc = "fetched",
                       !.fetched = IF ok
                                   THEN parse_content_div(probe.div, probe.text)
                                   ELSE None]
    /\ UNCHANGED <<pipeline, time, limiter, cache, client, metrics_fetcher,
                   content_fetcher>>

\* the rest of process_article: the cover image
ParseCover ==
    /\ probe.kind = "parse"
    /\ probe.pc = "fetched"
    /\ probe' = [probe EXCEPT
                    !.pc = "done",
                    !.cover = cover_image(probe.entry_image, probe.entry_html,
                                          probe.fetched)]
    /\ UNCHANGED <<pipeline, time, limiter, cache, client, metrics_fetcher,
                   content_fetcher>>

SpecParse == InitParse /\ [][ParseFetch \/ ParseCover]_vars

\* C31 as claimed: for a page whose content container holds an iframe whose
\* source URL matches a video-hosting pattern, the videos list returned by
\* the content fetcher contains an entry for that iframe
C31_IframeVideoListed ==
    (probe.kind = "parse" /\ probe.pc # "page" /\ probe.fetched # None) =>
        \A i \in 1..Len(probe.div) :
            (probe.div[i].tag = "iframe"
             /\ probe.div[i].src = "https://v.qq.com/x") =>
               \E k \in 1..Len(probe.fetched.videos) :
                  probe.fetched.videos[k] =
                     [url |-> "https://v.qq.com/x", type |-> "iframe"]

\* C32 as claimed: the image list holds no image whose declared width is
\* below 50 or whose declared height is below 50, whatever the other
\* attribute holds, and every such image element is still in the returned
\* HTML
C32_NoSmallImageListed ==
    (probe.kind = "parse" /\ probe.pc # "page" /\ probe.fetched # None) =>
        /\ \A k \in 1..Len(probe.fetched.images) :
              /\ probe.fetched.images[k].width # "30"
              /\ probe.fetched.images[k].height # "10"
        /\ Len(SelectSeq(probe.fetched.content_html,
                         LAMBDA e : e.tag = "img"))
              = Len(SelectSeq(probe.div, LAMBDA e : e.tag = "img"))

\* C33 as claimed: the cover image is the first image of the fetched image
\* list when that list is non-empty, otherwise the entry-level image field
\* when present, otherwise null
C33_CoverFromFetchedFirst ==
    (probe.kind = "parse" /\ probe.pc = "done") =>
        probe.cover =
            IF probe.fetched # None /\ probe.fetched.images # << >>
            THEN Str(probe.fetched.images[1].url)
            ELSE probe.entry_image


\* ------------------------------------------------------------------------
\* cache.SimpleCache on its own: get and set, enabled or disabled
\* ------------------------------------------------------------------------
MaxCacheOps == 3
CacheStep == 1200
MaxCacheClock == 4800

\* settings.cache_ttl_seconds, the TTL of a set without one
cache_ttl_seconds == 3600

\* SimpleCache(): enabled = settings.enable_cache, over an empty directory;
\* `sets` remembers the last set of a key: when, with which TTL, and what
InitCache ==
    /\ PipelineIdle
    /\ time = 0
    /\ limiter = NewLimiter(1)
    /\ cache = NoFiles
    /\ client = [upstream |-> << >>, writable |-> TRUE, requests |-> 0,
                 log |-> << >>]
    /\ metrics_fetcher = NewMetricsFetcher(TRUE)
    /\ content_fetcher = NewContentFetcher
    /\ \E enabled \in BOOLEAN :
          probe = [kind |-> "cache", enabled |-> enabled, n |-> 0,
                   sets |-> [k \in {"k1", "k2"} |->
                               [set |-> FALSE, at |-> 0, ttl |-> 0,
                                value |-> None]],
                   op |-> "", key |-> "", at |-> 0, result |-> None]

CacheElapse ==
    /\ probe.kind = "cache"
    /\ time + CacheStep <= MaxCacheClock
    /\ time' = time + CacheStep
    /\ UNCHANGED <<pipeline, limiter, cache, client, aside>>

\* SimpleCache.set(key, value, ttl), lines 74-101: nothing when disabled;
\* ttl_seconds = ttl or self.ttl (a ttl of None or 0 gives the default)
CacheSet ==
    /\ probe.kind = "cache"
    /\ probe.n < MaxCacheOps
    /\ \E key \in {"k1", "k2"}, value \in {FeedDoc("fA"), FeedDoc("fB")},
          ttl \in {0, FeedTtl} :
          LET ttl_seconds == IF ttl = 0 THEN cache_ttl_seconds ELSE ttl IN
          /\ cache' = IF probe.enabled
                      THEN cache_set(cache, key, value, ttl_seconds, time, TRUE)
                      ELSE cache
          /\ probe' = [probe EXCEPT
                          !.n = @ + 1, !.op = "set", !.key = key, !.at = time,
                          !.result = None,
                          !.sets[key] = [set |-> TRUE, at |-> time,
                                         ttl |-> ttl_seconds, value |-> value]]
    /\ UNCHANGED <<pipeline, time, limiter, client, metrics_fetcher,
                   content_fetcher>>

\* SimpleCache.get(key), lines 38-72: None when disabled
CacheGet ==
    /\ probe.kind = "cache"
    /\ probe.n < MaxCacheOps
    /\ \E key \in {"k1", "k2"} :
          /\ probe' = [probe EXCEPT
                          !.n = @ + 1, !.op = "get", !.key = key, !.at = time,
                          !.result = IF probe.enabled
                                     THEN cache_get(cache, key, time)
                                     ELSE None]
          /\ cache' = IF probe.enabled THEN cache_after_get(cache, key, time)
                      ELSE cache
    /\ UNCHANGED <<pipeline, time, limiter, client, metrics_fetcher,
                   content_fetcher>>

SpecCache == InitCache /\ [][CacheElapse \/ CacheSet \/ CacheGet]_vars

\* C34: the cache never serves an expired entry: get returns the value of
\* the key's last set while the current time is not past that set's time
\* plus its TTL; past it get returns None and the entry's file is gone;
\* with the cache disabled get always returns None and set stores nothing
C34_NeverServesExpired ==
    probe.kind = "cache" =>
        /\ ~probe.enabled => cache = NoFiles
        /\ probe.op = "get" =>
              LET s == probe.sets[probe.key]
                  live == s.set /\ probe.at <= s.at + s.ttl IN
              /\ ~probe.enabled => probe.result = None
              /\ (probe.enabled /\ live) => probe.result = s.value
              /\ ~live => /\ probe.result = None
                          /\ probe.key \in DOMAIN cache =>
                                ~cache[probe.key].exists

\* a get found the entry of an earlier set expired, after the other key's
\* entry had been set
C34_Witness ==
    /\ probe.kind = "cache" /\ probe.enabled /\ probe.op = "get"
    /\ \A k \in DOMAIN probe.sets : probe.sets[k].set
    /\ probe.at > probe.sets[probe.key].at + probe.sets[probe.key].ttl
    /\ probe.result = None


\* C35: a failed fetch is never served from the cache: when a call through
\* the cached wrapper returned None, the next call with the same key runs
\* the operation again (a request goes upstream), whenever it is made
C35_FailureNotCached ==
    \A i, j \in 1..Len(client.log) :
        ( /\ i < j
          /\ client.log[i].op # "evict"
          /\ client.log[i].doc = None
          /\ client.log[j].op # "evict"
          /\ client.log[j].key = client.log[i].key
          /\ \A k \in (i + 1)..(j - 1) :
                client.log[k].key # client.log[i].key )
        => client.log[j].requested

\* a fetch failed, its None was written to the cache file, and the same
\* call made again before that file expired went upstream again
C35_Witness ==
    /\ Len(client.log) >= 2
    /\ client.log[1].op = "fetch_feed"
    /\ client.log[1].doc = None
    /\ client.log[1].stored = FALSE
    /\ client.log[2].op = "fetch_feed"
    /\ client.log[2].key = client.log[1].key
    /\ client.log[2].called_at <= client.log[1].at + FeedTtl
    /\ client.log[2].requested
    /\ client.log[2].key \in DOMAIN cache
    /\ cache[client.log[2].key].exists
    /\ cache[client.log[2].key].value = None


\* C36: every sync_account run that returns success has
\* fetched = new + updated + skipped + failed, every fetched entry being
\* counted by exactly one of the four counters, and the fetched, new,
\* updated and failed counts stored on its SyncRun are the returned ones
C36_StatsPartitionEntries ==
    \A p \in Procs :
        LET r == run[p] IN
        (r.pc = "ret" /\ r.result.success) =>
            LET s == r.result.stats IN
            /\ s.fetched = Len(r.entries)
            /\ s.fetched = s.new + s.updated + s.skipped + s.failed
            /\ Len(r.outcome) = Len(r.entries)
            /\ \A k \in {"new", "updated", "skipped", "failed"} :
                  s[k] = Count(r.outcome, k)
            /\ r.sync_id \in 1..Len(syncs)
            /\ syncs[r.sync_id].status = "success"
            /\ syncs[r.sync_id].articles_fetched = s.fetched
            /\ syncs[r.sync_id].articles_new = s.new
            /\ syncs[r.sync_id].articles_updated = s.updated
            /\ syncs[r.sync_id].articles_failed = s.failed

\* a full sync returned success after updating one stored article and
\* failing on another entry
C36_Witness ==
    \E p \in Procs :
        /\ run[p].pc = "ret"
        /\ run[p].result.success
        /\ run[p].result.stats.updated = 1
        /\ run[p].result.stats.failed = 1
        /\ run[p].result.stats.fetched = 2


\* C37 as claimed: is_simulated always reflects the provenance of the
\* stored counters: once an operation that writes counters (sync, the
\* dashboard's metrics refresh, the command-line metrics update) is over,
\* the flag of every article is true exactly when its stored counters are
\* the ones the simulation fallback produces
C37_FlagFollowsProvenance ==
    (probe.kind = "refresh" /\ probe.pc \in {"idle", "done"}) =>
        \A i \in 1..Len(articles) :
            articles[i].is_simulated
               <=> articles[i].counters = SimulatedCounters(articles[i].url)


\* C38: an Article's owning account never changes after its creation; when
\* a sync of one account meets a URL that is stored under another account,
\* no row is added, the row stays with its owner, and the entry is skipped
\* in incremental mode and counted as updated (the row being overwritten in
\* place) in full-sync mode, unless its processing fails
C38_OwnerNeverChanges ==
    /\ [][\A i \in 1..Len(articles) :
             /\ i <= Len(articles')
             /\ articles'[i].id = articles[i].id
             /\ articles'[i].account_id = articles[i].account_id]_vars
    /\ [][\A p \in Procs :
             LET r   == run[p]
                 row == IF r.pc \in {"entry", "persist"}
                        THEN get_article_by_url(articles, r.entries[r.idx].url)
                        ELSE 0 IN
             (/\ Moved(p)
              /\ row # 0
              /\ articles[row].account_id # r.account_id)
             => /\ Len(articles') = Len(articles)
                /\ \A i \in 1..Len(articles) :
                      i # row => articles'[i] = articles[i]
                /\ ~r.full_sync => articles' = articles
                /\ Len(run'[p].outcome) = r.idx =>
                      run'[p].outcome[r.idx] \in
                         {IF r.full_sync THEN "updated" ELSE "skipped",
                          "failed"}]_vars

\* a full sync overwrote, and counted as updated, an article of another
\* account, which still owns it
C38_Witness ==
    \E p \in Procs :
        LET r == run[p] IN
        /\ r.pc = "metrics"
        /\ r.full_sync
        /\ r.outcome[r.idx] = "updated"
        /\ articles[r.article_id].url = r.entries[r.idx].url
        /\ articles[r.article_id].title = r.entries[r.idx].title
        /\ articles[r.article_id].account_id # r.account_id


\* C39: sync_all_accounts syncs every account in incremental mode: none of
\* its steps modifies an Article row that existed before the call, and in
\* its result total_updated is 0 while total_new and total_failed are the
\* sums of the new and failed counts of the accounts whose sync succeeded
\* in this call, an account whose sync failed adding nothing
C39_SyncAllIncremental ==
    /\ [][\A p \in Procs :
             (run[p].op = "all" /\ Moved(p)) =>
                \A i \in 1..Len(articles) :
                   articles[i].created_at < clock =>
                      articles'[i] = articles[i]]_vars
    /\ [](\A p \in Procs :
             LET r == run[p]
                 mine == SelectSeq(syncs, LAMBDA s :
                            /\ s.sync_type = "auto"
                            /\ s.status = "success"
                            /\ s.completed_at = clock)
                 RECURSIVE Sum(_, _)
                 Sum(rows, column) ==
                     IF rows = << >> THEN 0
                     ELSE Head(rows)[column] + Sum(Tail(rows), column) IN
             r.op = "all" =>
                /\ ~r.full_sync
                /\ r.pc = "top_ret" =>
                      /\ r.totals.total_updated = 0
                      /\ r.totals.total_new = Sum(mine, "articles_new")
                      /\ r.totals.total_failed = Sum(mine, "articles_failed")
                      /\ Len(r.totals.synced) = r.totals.total_accounts)

\* sync_all_accounts returned after syncing two accounts, storing a new
\* article and skipping the entries whose articles were stored before the
\* call
C39_Witness ==
    \E p \in Procs :
        /\ run[p].op = "all"
        /\ run[p].pc = "top_ret"
        /\ run[p].totals.total_accounts = 2
        /\ run[p].totals.total_new >= 1
        /\ run[p].stats.skipped >= 1
        /\ \E i \in 1..Len(articles) : articles[i].created_at < clock


\* C40: add_account for a feed identifier that already has an Account,
\* active or deactivated, returns the failure "Account already exists" once
\* its lookup has answered, and changes nothing: no feed fetch is issued,
\* no Account, Article or SyncRun is created or modified, and a deactivated
\* account stays deactivated
C40_AddExistingChangesNothing ==
    [][\A p \in Procs :
          LET r == run[p] IN
          (/\ r.op = "add"
           /\ r.pc = "add_lookup"
           /\ Moved(p)
           /\ \E i \in 1..Len(accounts) : accounts[i].feed_id = r.feed_id)
          => /\ accounts' = accounts
             /\ articles' = articles
             /\ syncs' = syncs
             /\ run'[p].seed_fetch = ""
             /\ run'[p].created_sync = 0
             /\ run'[p].pc \in {"top_ret", "top_raised"}
             /\ run'[p].pc = "top_ret" =>
                   /\ ~run'[p].result.success
                   /\ run'[p].result.error = "Account already exists"]_vars

\* add_account was refused for a feed whose account is deactivated
C40_Witness ==
    \E p \in Procs :
        /\ run[p].op = "add"
        /\ run[p].pc = "top_ret"
        /\ run[p].result.error = "Account already exists"
        /\ \E i \in 1..Len(accounts) :
              /\ accounts[i].feed_id = run[p].feed_id
              /\ ~accounts[i].is_active

====
